---- MODULE Spec2Model ----
(***************************************************************************)
(* wow.export: the FBX binary writer (src/js/3D/writers/FBXWriter.js).     *)
(*                                                                         *)
(* Node records live in a heap (a sequence indexed by object identity);   *)
(* a JavaScript Set is a sequence without repetition, in insertion order. *)
(* A string is the sequence of its code points, a Buffer the sequence of   *)
(* its bytes.  The output buffer is its capacity and the bytes written so  *)
(* far: every write of the writer is sequential, so the cursor offset is   *)
(* the number of bytes written.                                            *)
(*                                                                         *)
(* Spec drives the record operations and the size and write passes on      *)
(* trees a client builds; WriteSpec is write() on the tree buildNodeTree   *)
(* builds, with its file system calls.                                     *)
(***************************************************************************)
EXTENDS Integers, Sequences, FiniteSets, TLC

VARIABLES
    heap,       \* the node records constructed so far
    tree,       \* the Set of root nodes handed to the size and write passes
    treeSize,   \* what calculateNodeTreeSize returned
    buf,        \* the output buffer
    next,       \* how many root nodes the loop of write() has written
    pc,         \* the position of the call
    error,      \* the exception the call ended with, "none" if none
    passed,     \* per record, the (type, value) pairs its callers passed
    overwrite,  \* the argument of write()
    out,        \* this.out: the base name of the output path
    exists,     \* whether a file exists at this.out
    calls,      \* the asynchronous operations write() has invoked, in order
    file,       \* the bytes stored at this.out
    writers,    \* the write() calls in progress on this.out, when several
    \* app.js
    dropStack,      \* let dropStack (line 412)
    fileDropPrompt, \* core.view.fileDropPrompt
    isBusy,         \* core.view.isBusy
    dragged,        \* the dragenter events not yet followed by a dragleave
    processed,      \* the files of the last call of handler.process
    cacheSize,      \* core.view.cacheSize
    updateTimer,    \* let updateTimer (line 490)
    timers,         \* the timers armed by setTimeout and not yet run
    clock,          \* the time, in units of SIZE_UPDATE_DELAY / Delay
    journal,        \* the changes of cacheSize and the file writes, in order
    screenStack,    \* core.view.screenStack
    loadPct,        \* core.view.loadPct
    testing,        \* runIntegrationTests is waiting for the runner
    isCrashed,      \* let isCrashed (line 20)
    markup,         \* what the page shows, and how often it was replaced
    emitted,        \* the 'crash' events emitted
    script,         \* how far the top level of app.js has run
    running,        \* the calls of crash() that have not returned
    crashes         \* the error codes of the calls of crash() so far

fbxVars == <<heap, tree, treeSize, buf, next, pc, error, passed,
             overwrite, out, exists, calls, file>>

raceVars == <<writers>>

dragVars == <<dropStack, fileDropPrompt, isBusy, dragged, processed>>

cacheVars == <<cacheSize, updateTimer, timers, clock, journal>>

screenVars == <<screenStack, loadPct, testing>>

crashVars == <<isCrashed, markup, emitted, script, running, crashes>>

appVars == <<dragVars, cacheVars, screenVars, crashVars>>

vars == <<fbxVars, raceVars, appVars>>

\* null.
Null == [kind |-> "null"]

\* app.js at rest: nothing is dragged (line 412), cacheSize is unchanged
\* and no timer armed (line 490), no screen is set, and nothing has
\* crashed (line 20).
DragIdle ==
    /\ dropStack = 0
    /\ fileDropPrompt = Null
    /\ isBusy = FALSE
    /\ dragged = 0
    /\ processed = <<>>

CacheIdle ==
    /\ cacheSize = 0
    /\ updateTimer = -1
    /\ timers = {}
    /\ clock = 0
    /\ journal = <<>>

ScreenIdle ==
    /\ screenStack = <<>>
    /\ loadPct = -1
    /\ testing = FALSE

CrashIdle ==
    /\ isCrashed = FALSE
    /\ markup = [page |-> "app", replaced |-> 0]
    /\ emitted = 0
    /\ script = "vue"
    /\ running = <<>>
    /\ crashes = <<>>

AppIdle == DragIdle /\ CacheIdle /\ ScreenIdle /\ CrashIdle

\* ------------------------------------------------------------ property types

PROPERTY_INT_16 == [code |-> 89, isArray |-> FALSE, size |-> 2]
PROPERTY_INT_32 == [code |-> 73, isArray |-> FALSE, size |-> 4]
PROPERTY_INT_64 == [code |-> 76, isArray |-> FALSE, size |-> 8]
PROPERTY_FLOAT == [code |-> 70, isArray |-> FALSE, size |-> 4]
PROPERTY_DOUBLE == [code |-> 68, isArray |-> FALSE, size |-> 8]
PROPERTY_BOOLEAN == [code |-> 67, isArray |-> FALSE, size |-> 1]
PROPERTY_STRING == [code |-> 83, isArray |-> FALSE]
PROPERTY_BINARY == [code |-> 82, isArray |-> FALSE]
PROPERTY_ARR_INT_32 == [code |-> 105, isArray |-> TRUE, size |-> 4]
PROPERTY_ARR_INT_64 == [code |-> 108, isArray |-> TRUE, size |-> 8]
PROPERTY_ARR_FLOAT == [code |-> 102, isArray |-> TRUE, size |-> 4]
PROPERTY_ARR_DOUBLE == [code |-> 100, isArray |-> TRUE, size |-> 8]
PROPERTY_ARR_BOOLEAN == [code |-> 98, isArray |-> TRUE, size |-> 1]

FBX_VERSION == 7400

\* The value of a field that was never assigned (node.size and
\* node.propertySize after the constructor).
Undefined == -1

\* ------------------------------------------------------------ values

\* JavaScript values, tagged with their runtime shape.  A number is
\* n * k / d: d = 1 for an integer, and k carries the factor of an integer
\* beyond 32 bits.
Num(n) == [kind |-> "number", n |-> n, d |-> 1, k |-> 1]
Frac(n, d) == [kind |-> "number", n |-> n, d |-> d, k |-> 1]
Times(n, k) == [kind |-> "number", n |-> n, d |-> 1, k |-> k]
Str(s) == [kind |-> "string", s |-> s]
Bool(b) == [kind |-> "boolean", b |-> b]
Bytes(b) == [kind |-> "buffer", b |-> b]
List(a) == [kind |-> "array", a |-> a]

Range(s) == {s[i] : i \in 1..Len(s)}

RECURSIVE Sum(_)
Sum(s) ==
    IF s = <<>> THEN 0
    ELSE IF Len(s) = 1 THEN s[1]
    ELSE LET half == Len(s) \div 2
         IN Sum(SubSeq(s, 1, half)) + Sum(SubSeq(s, half + 1, Len(s)))

RECURSIVE Flatten(_)
Flatten(ss) ==
    IF ss = <<>> THEN <<>>
    ELSE IF Len(ss) = 1 THEN ss[1]
    ELSE LET half == Len(ss) \div 2
         IN Flatten(SubSeq(ss, 1, half))
            \o Flatten(SubSeq(ss, half + 1, Len(ss)))

\* String.prototype.length counts UTF-16 code units: a code point outside
\* the basic plane is a surrogate pair.
StringLength(s) ==
    Sum([i \in 1..Len(s) |-> IF s[i] < 65536 THEN 1 ELSE 2])

\* The UTF-8 encoding of one code point.
Utf8Char(cp) ==
    IF cp < 128 THEN <<cp>>
    ELSE IF cp < 2048 THEN <<192 + (cp \div 64), 128 + (cp % 64)>>
    ELSE IF cp < 65536
         THEN <<224 + (cp \div 4096), 128 + ((cp \div 64) % 64), 128 + (cp % 64)>>
    ELSE <<240 + (cp \div 262144), 128 + ((cp \div 4096) % 64),
           128 + ((cp \div 64) % 64), 128 + (cp % 64)>>

\* The UTF-8 encoding of a string.
Utf8(s) == Flatten([i \in 1..Len(s) |-> Utf8Char(s[i])])

\* Buffer.byteLength(string): the length of the UTF-8 encoding.
ByteLength(s) == Len(Utf8(s))

\* ------------------------------------------------------------ FBXNodeRecord

\* Set.prototype.add: insertion order, no repetition (by identity).
SetAdd(set, x) == IF x \in Range(set) THEN set ELSE Append(set, x)

RECURSIVE SetAddAll(_, _)
SetAddAll(set, xs) ==
    IF xs = <<>> THEN set ELSE SetAddAll(SetAdd(set, Head(xs)), Tail(xs))

\* addProperty as it would be if the Set compared properties by type and
\* value.
addPropertyByValue(h, id, type, values) ==
    [h EXCEPT ![id].properties =
        SetAddAll(@, [i \in 1..Len(values) |->
                         [type |-> type, value |-> values[i]]])]

\* addProperty as it would be with the signature addProperty(type, value).
addPropertyOneValue(h, id, type, values) ==
    IF values = <<>> THEN h
    ELSE [h EXCEPT ![id].properties =
             Append(@, [type |-> type, value |-> values[1]])]

\* addProperty(type, ...values): every value is wrapped in a fresh object
\* { type, value }, which the Set therefore always appends.
addProperty(h, id, type, values) ==
    [h EXCEPT ![id].properties =
        @ \o [i \in 1..Len(values) |-> [type |-> type, value |-> values[i]]]]

\* addChild as it would be if children were an array that every given
\* child is pushed on.
addChildPushing(h, id, children) ==
    [h EXCEPT ![id].children = @ \o children]

\* addChild(...children): the heap after the call (the call returns
\* children[0]).
addChild(h, id, children) ==
    [h EXCEPT ![id].children = SetAddAll(@, children)]

\* Line 63: return children[0].
addChildReturn(children) == children[1]

\* new FBXNodeRecord(name, singlePropertyType, ...singlePropertyValues).
\* args is <<>> when no type is passed, else <<type, values>>.  The new
\* record's identity is Len(h) + 1.
FBXNodeRecord(h, name, args) ==
    LET fresh == Append(h, [name |-> name, properties |-> <<>>,
                            children |-> <<>>, size |-> Undefined,
                            propertySize |-> Undefined])
    IN IF args # <<>> THEN addProperty(fresh, Len(fresh), args[1], args[2])
       ELSE fresh

\* ------------------------------------------------------------ size pass

\* Lines 660-661: endOffset, numProperties, propertyListLen, nameLen, name.
HeaderSize(node) == 4 + 4 + 4 + 1 + StringLength(node.name)

\* PropertyCost as it would be with property.value.length for a String.
PropertyCostInCodeUnits(property) ==
    LET type == property.type IN
    IF type = PROPERTY_STRING
    THEN IF property.value.kind = "string"
         THEN [ok |-> TRUE, n |-> 1 + 4 + StringLength(property.value.s)]
         ELSE [ok |-> FALSE, n |-> 0]
    ELSE IF type = PROPERTY_BINARY
    THEN [ok |-> TRUE, n |-> 1 + 4 + Len(property.value.b)]
    ELSE IF type.isArray THEN [ok |-> FALSE, n |-> 0]
    ELSE [ok |-> TRUE, n |-> 1 + type.size]

\* Lines 666-678, one property.  type.value is not a field of any type
\* constant, so type.value.length throws a TypeError; so does
\* Buffer.byteLength of a number.
PropertyCost(property) ==
    LET type == property.type IN
    IF type = PROPERTY_STRING
    THEN IF property.value.kind = "string"
         THEN [ok |-> TRUE, n |-> 1 + 4 + ByteLength(property.value.s)]
         ELSE [ok |-> FALSE, n |-> 0]
    ELSE IF type = PROPERTY_BINARY
    THEN [ok |-> TRUE, n |-> 1 + 4 + Len(property.value.b)]
    ELSE IF type.isArray
    THEN IF "value" \in DOMAIN type
         THEN [ok |-> TRUE, n |-> 1 + type.size * Len(type.value)]
         ELSE [ok |-> FALSE, n |-> 0]
    ELSE [ok |-> TRUE, n |-> 1 + type.size]

\* Lines 665-679: the loop over node.properties, from the running size.
RECURSIVE PropertiesSize(_, _)
PropertiesSize(properties, size) ==
    IF properties = <<>> THEN [ok |-> TRUE, n |-> size]
    ELSE LET c == PropertyCost(Head(properties))
         IN IF c.ok THEN PropertiesSize(Tail(properties), size + c.n)
            ELSE c

\* PaddingSize as it would be if a single child needed no padding.
PaddingSizeSeveralChildren(node) ==
    IF Len(node.children) > 1 THEN 13 ELSE 0

\* Lines 687-689: unknown node list padding.
PaddingSize(node) == IF Len(node.children) > 0 THEN 13 ELSE 0

\* StoreSizes as it would be without line 693.
StoreSizesSizeOnly(h, id, size, propertySize) ==
    [h EXCEPT ![id].size = size]

\* StoreSizes as it would be if the size pass released the children of a
\* record once they are sized (node.children.clear()).
StoreSizesAndRelease(h, id, size, propertySize) ==
    [h EXCEPT ![id].size = size, ![id].propertySize = propertySize,
              ![id].children = <<>>]

\* Lines 691-693: store data sizes for compilation.
StoreSizes(h, id, size, propertySize) ==
    [h EXCEPT ![id].size = size, ![id].propertySize = propertySize]

\* calculateNodeTreeSize(node).  node is [isSet |-> TRUE, items |-> ids] for
\* a Set and [isSet |-> FALSE, id |-> id] for a node record.  The result is
\* the heap as annotated so far, the returned size and how the call ended:
\* "ok", "TypeError" (thrown by a property), or "RangeError" (the call
\* stack is exhausted when a record is its own descendant: path holds the
\* records whose calls are still open).  visits lists the records whose
\* calls have returned, in the order they returned.
RECURSIVE calculateNodeTreeSize(_, _, _)
RECURSIVE SumTreeSizes(_, _, _, _)
SumTreeSizes(h, items, size, path) ==
    IF items = <<>> THEN [h |-> h, size |-> size, st |-> "ok", visits |-> <<>>]
    ELSE IF Len(items) = 1
    THEN LET r == calculateNodeTreeSize(
                      h, [isSet |-> FALSE, id |-> items[1]], path)
         IN IF r.st = "ok"
            THEN [h |-> r.h, size |-> size + r.size, st |-> "ok",
                  visits |-> r.visits]
            ELSE r
    ELSE \* the loop over the first half of the items, then over the rest
         LET half == Len(items) \div 2
             r == SumTreeSizes(h, SubSeq(items, 1, half), size, path)
         IN IF r.st = "ok"
            THEN LET s == SumTreeSizes(r.h,
                              SubSeq(items, half + 1, Len(items)),
                              r.size, path)
                 IN [s EXCEPT !.visits = r.visits \o @]
            ELSE r

\* calculateNodeTreeSize as it would be if a record that carries a size
\* were not visited again.
calculateNodeTreeSizeOnce(h, node, path) ==
    IF node.isSet THEN SumTreeSizes(h, node.items, 0, path)
    ELSE IF node.id \in path
    THEN [h |-> h, size |-> 0, st |-> "RangeError", visits |-> <<>>]
    ELSE IF h[node.id].size # Undefined
    THEN [h |-> h, size |-> h[node.id].size, st |-> "ok", visits |-> <<>>]
    ELSE LET n == h[node.id]
             base == HeaderSize(n)
             p == PropertiesSize(n.properties, base)
         IN IF ~p.ok
            THEN [h |-> h, size |-> 0, st |-> "TypeError", visits |-> <<>>]
            ELSE LET propertySize == p.n - base
                     c == SumTreeSizes(h, n.children, p.n,
                                       path \cup {node.id})
                 IN IF c.st # "ok" THEN c
                    ELSE LET size == c.size + PaddingSize(n)
                         IN [h |-> StoreSizes(c.h, node.id, size, propertySize),
                             size |-> size, st |-> "ok",
                             visits |-> Append(c.visits, node.id)]

calculateNodeTreeSize(h, node, path) ==
    IF node.isSet THEN SumTreeSizes(h, node.items, 0, path)
    ELSE IF node.id \in path
    THEN [h |-> h, size |-> 0, st |-> "RangeError", visits |-> <<>>]
    ELSE LET n == h[node.id]
             base == HeaderSize(n)
             p == PropertiesSize(n.properties, base)
         IN IF ~p.ok
            THEN [h |-> h, size |-> 0, st |-> "TypeError", visits |-> <<>>]
            ELSE LET propertySize == p.n - base
                     c == SumTreeSizes(h, n.children, p.n,
                                       path \cup {node.id})
                 IN IF c.st # "ok" THEN c
                    ELSE LET size == c.size + PaddingSize(n)
                         IN [h |-> StoreSizes(c.h, node.id, size, propertySize),
                             size |-> size, st |-> "ok",
                             visits |-> Append(c.visits, node.id)]

\* ------------------------------------------------------------ BufferWrapper

\* BufferWrapper.alloc(length, secure): a zero-filled buffer of the given
\* length with the cursor at 0.  visits is the record of the writer's
\* completed node records, kept for the properties below: the record
\* written, the offset before its header, after its header, after its
\* properties, after its children and after its padding.
Alloc(length) ==
    [cap |-> length, data |-> <<>>, thrown |-> FALSE, visits |-> <<>>,
     allocated |-> TRUE]

\* No buffer: const buf of write() before its declaration is reached.
NoBuffer == [cap |-> 0, data |-> <<>>, thrown |-> FALSE, visits |-> <<>>,
             allocated |-> FALSE]

Offset(b) == Len(b.data)

\* A write of bytes at the cursor: out of bounds it throws and writes
\* nothing; after a throw nothing more of the call runs.
WriteBytes(b, bytes) ==
    IF b.thrown THEN b
    ELSE IF Offset(b) + Len(bytes) > b.cap THEN [b EXCEPT !.thrown = TRUE]
    ELSE [b EXCEPT !.data = @ \o bytes]

\* The low w bytes of the two's complement of v, least significant first.
RECURSIVE LE(_, _)
LE(v, w) == IF w = 0 THEN <<>> ELSE <<v % 256>> \o LE(v \div 256, w - 1)

\* bytes * k, byte by byte with carry (w bytes kept): 64-bit products are
\* beyond the checker's integers.
RECURSIVE Scale(_, _, _)
Scale(bytes, k, carry) ==
    IF bytes = <<>> THEN <<>>
    ELSE LET x == Head(bytes) * k + carry
         IN <<x % 256>> \o Scale(Tail(bytes), k, x \div 256)

writeUInt8(b, v) == WriteBytes(b, LE(v, 1))
writeInt16LE(b, v) == WriteBytes(b, LE(v, 2))
writeInt32LE(b, v) == WriteBytes(b, LE(v, 4))
writeUInt32LE(b, v) == WriteBytes(b, LE(v, 4))
writeInt64LE(b, v, k) == WriteBytes(b, Scale(LE(v, 8), k, 0))

\* IEEE 754 single precision of the values given to the writer.
writeFloatLE(b, value) ==
    WriteBytes(b, CASE value.n = 0 -> <<0, 0, 0, 0>>
                    [] value.n = value.d -> <<0, 0, 128, 63>>)

\* IEEE 754 double precision of the values given to the writer:
\* 0, 1, 24 and 0.8.
writeDoubleLE(b, value) ==
    WriteBytes(b, CASE value.n = 0 -> <<0, 0, 0, 0, 0, 0, 0, 0>>
                    [] value.n = value.d -> <<0, 0, 0, 0, 0, 0, 240, 63>>
                    [] value.n = 24 * value.d -> <<0, 0, 0, 0, 0, 0, 56, 64>>
                    [] 5 * value.n = 4 * value.d ->
                           <<154, 153, 153, 153, 153, 153, 233, 63>>)

writeString(b, s) == WriteBytes(b, Utf8(s))

\* The integer a fixed-width integer write stores for a value: a string
\* that is no numeral converts to NaN, which is stored as 0.
ToInteger(value) == IF value.kind = "number" THEN value.n ELSE 0
writeBuffer(b, bytes) == WriteBytes(b, bytes)

\* ------------------------------------------------------------ write pass

\* Lines 705-710: the node record header.
WriteHeader(node, b) ==
    LET b1 == writeUInt32LE(b, Offset(b) + node.size)
        b2 == writeUInt32LE(b1, Len(node.properties))
        b3 == writeUInt32LE(b2, node.propertySize)
        b4 == writeUInt8(b3, ByteLength(node.name))
    IN writeString(b4, node.name)

\* Lines 714-737: one property.  The switch has no case for the array
\* types: only their type code is written.
WriteProperty(property, b) ==
    LET type == property.type
        value == property.value
        b1 == writeUInt8(b, type.code)
    IN CASE type = PROPERTY_INT_16 -> writeInt16LE(b1, value.n)
         [] type = PROPERTY_INT_32 -> writeInt32LE(b1, ToInteger(value))
         [] type = PROPERTY_INT_64 -> writeInt64LE(b1, value.n, value.k)
         [] type = PROPERTY_FLOAT -> writeFloatLE(b1, value)
         [] type = PROPERTY_DOUBLE -> writeDoubleLE(b1, value)
         [] type = PROPERTY_BOOLEAN ->
                writeUInt8(b1, IF value.b THEN 1 ELSE 0)
         [] type = PROPERTY_STRING ->
                writeString(writeUInt32LE(b1, ByteLength(value.s)), value.s)
         [] type = PROPERTY_BINARY ->
                writeBuffer(writeUInt32LE(b1, Len(value.b)), value.b)
         [] OTHER -> b1

\* Lines 713-738: the loop over node.properties.
RECURSIVE WriteProperties(_, _)
WriteProperties(properties, b) ==
    IF properties = <<>> THEN b
    ELSE LET b1 == WriteProperty(Head(properties), b)
         IN IF b1.thrown THEN b1 ELSE WriteProperties(Tail(properties), b1)

\* Lines 746-747: n zero bytes, one write each.
RECURSIVE WriteZeros(_, _)
WriteZeros(b, n) ==
    IF n = 0 THEN b
    ELSE IF n = 1 THEN writeUInt8(b, 0)
    ELSE \* the first half of the iterations, then the rest
         LET b1 == WriteZeros(b, n \div 2)
         IN IF b1.thrown THEN b1 ELSE WriteZeros(b1, n - n \div 2)

\* Lines 744-747: node list padding.
WritePadding(node, b) ==
    IF Len(node.children) > 0 THEN WriteZeros(b, 13) ELSE b

\* writeNode(node, buf), the buffer after the call.
RECURSIVE writeNode(_, _, _)
RECURSIVE WriteChildren(_, _, _)
WriteChildren(h, children, b) ==
    IF children = <<>> THEN b
    ELSE IF Len(children) = 1 THEN writeNode(h, children[1], b)
    ELSE \* the loop over the first half of the children, then over the rest
         LET half == Len(children) \div 2
             b1 == WriteChildren(h, SubSeq(children, 1, half), b)
         IN IF b1.thrown THEN b1
            ELSE WriteChildren(h, SubSeq(children, half + 1, Len(children)),
                               b1)

writeNode(h, id, b) ==
    LET node == h[id]
        b1 == WriteHeader(node, b)
        b2 == WriteProperties(node.properties, b1)
        b3 == WriteChildren(h, node.children, b2)
        b4 == WritePadding(node, b3)
    IN \* an exception ends the call where it is thrown
       IF b1.thrown THEN b1
       ELSE IF b2.thrown THEN b2
       ELSE IF b3.thrown THEN b3
       ELSE IF b4.thrown THEN b4
       ELSE [b4 EXCEPT !.visits = Append(@,
                [node |-> id, start |-> Offset(b), header |-> Offset(b1),
                 props |-> Offset(b2), kids |-> Offset(b3),
                 end |-> Offset(b4)])]

\* ------------------------------------------------------------ write()

\* Preamble as it would be if the buffer were one byte shorter.
PreambleOneByteShort(size) ==
    LET b0 == Alloc(size + 26)
        b1 == writeString(b0, <<75, 97, 121, 100, 97, 114, 97, 32, 70, 66, 88,
                                32, 66, 105, 110, 97, 114, 121, 32, 32, 0>>)
        b2 == writeUInt8(b1, 26)
        b3 == writeUInt8(b2, 0)
    IN writeUInt32LE(b3, FBX_VERSION)

\* Preamble as it would be with writeUInt32BE for the version.
PreambleBigEndian(size) ==
    LET b0 == Alloc(size + 27)
        b1 == writeString(b0, <<75, 97, 121, 100, 97, 114, 97, 32, 70, 66, 88,
                                32, 66, 105, 110, 97, 114, 121, 32, 32, 0>>)
        b2 == writeUInt8(b1, 26)
        b3 == writeUInt8(b2, 0)
    IN WriteBytes(b3, <<(FBX_VERSION \div 16777216) % 256,
                        (FBX_VERSION \div 65536) % 256,
                        (FBX_VERSION \div 256) % 256, FBX_VERSION % 256>>)

\* Lines 764-774: the buffer and the file preamble.  The magic is
\* 'Kaydara FBX Binary', two spaces and a NUL.
Preamble(size) ==
    LET b0 == Alloc(size + 27)
        b1 == writeString(b0, <<75, 97, 121, 100, 97, 114, 97, 32, 70, 66, 88,
                                32, 66, 105, 110, 97, 114, 121, 32, 32, 0>>)
        b2 == writeUInt8(b1, 26)
        b3 == writeUInt8(b2, 0)
    IN writeUInt32LE(b3, FBX_VERSION)

ioVars == <<overwrite, out, exists, calls, file>>

\* Line 762: const treeSize = this.calculateNodeTreeSize(tree), called
\* at position at.
SizeAt(at) ==
    /\ pc = at
    /\ LET r == calculateNodeTreeSize(
                    heap, [isSet |-> TRUE, items |-> tree], {})
       IN /\ heap' = r.h
          /\ IF r.st = "ok"
             THEN /\ treeSize' = r.size
                  /\ pc' = "alloc"
                  /\ error' = error
             ELSE /\ treeSize' = treeSize
                  /\ pc' = "failed"
                  /\ error' = r.st
    /\ UNCHANGED <<tree, buf, next, passed>>
    /\ UNCHANGED ioVars
    /\ UNCHANGED <<raceVars, appVars>>

\* Lines 764-774.
AllocBuffer ==
    /\ pc = "alloc"
    /\ buf' = Preamble(treeSize)
    /\ pc' = "roots"
    /\ UNCHANGED <<heap, tree, treeSize, next, error, passed>>
    /\ UNCHANGED ioVars
    /\ UNCHANGED <<raceVars, appVars>>

\* Lines 776-777, one iteration: this.writeNode(rootNode, buf).
WriteRoot ==
    /\ pc = "roots"
    /\ next < Len(tree)
    /\ LET b == writeNode(heap, tree[next + 1], buf)
       IN /\ buf' = b
          /\ IF b.thrown
             THEN pc' = "failed" /\ error' = "Error" /\ next' = next
             ELSE pc' = pc /\ error' = error /\ next' = next + 1
    /\ UNCHANGED <<heap, tree, treeSize, passed>>
    /\ UNCHANGED ioVars
    /\ UNCHANGED <<raceVars, appVars>>

\* ------------------------------------------------------------ the engine
\* The size and write passes of write() over a tree that a client of
\* FBXNodeRecord has built, instead of the tree of buildNodeTree.

\* The bound of a client's build: records constructed, properties added,
\* children attached and roots added, all together.
MaxSize == 5

\* "X" and "e" with an acute accent (U+00E9).
Names == {<<88>>, <<233>>}

\* Arguments of addProperty and of the constructor: a type and its values.
Arguments ==
    { <<PROPERTY_INT_16, <<Num(-2)>>>>,
      <<PROPERTY_INT_32, <<Num(42)>>>>,
      <<PROPERTY_INT_64, <<Num(-1)>>>>,
      <<PROPERTY_FLOAT, <<Num(1)>>>>,
      <<PROPERTY_DOUBLE, <<Num(0), Num(1)>>>>,
      <<PROPERTY_BOOLEAN, <<Bool(TRUE)>>>>,
      <<PROPERTY_STRING, <<Str(<<233, 128512>>)>>>>,
      <<PROPERTY_BINARY, <<Bytes(<<7, 0, 255>>)>>>>,
      <<PROPERTY_ARR_INT_32, <<List(<<1, 2>>)>>>>,
      \* a number as a String, the string 'abc' as an Int32
      <<PROPERTY_STRING, <<Num(42)>>>>,
      <<PROPERTY_INT_32, <<Str(<<97, 98, 99>>)>>>> }

\* The (type, value) pairs of an argument list.
Pairs(args) ==
    IF args = <<>> THEN <<>>
    ELSE [i \in 1..Len(args[2]) |-> [type |-> args[1], value |-> args[2][i]]]

\* What the client has built so far.
BuildSize ==
    Len(heap) + Len(tree)
    + Sum([i \in 1..Len(heap) |->
              Len(heap[i].properties) + Len(heap[i].children)])

\* new FBXNodeRecord(name) and new FBXNodeRecord(name, type, ...values).
New ==
    /\ pc = "client"
    /\ \E name \in Names, args \in {<<>>} \cup Arguments :
          /\ BuildSize + 1 + (IF args = <<>> THEN 0 ELSE Len(args[2]))
                 <= MaxSize
          /\ heap' = FBXNodeRecord(heap, name, args)
          /\ passed' = Append(passed, Pairs(args))
    /\ UNCHANGED <<tree, treeSize, buf, next, pc, error>>
    /\ UNCHANGED ioVars
    /\ UNCHANGED <<raceVars, appVars>>

\* node.addProperty(type, ...values).
AddProperty ==
    /\ pc = "client"
    /\ \E id \in 1..Len(heap), args \in Arguments :
          /\ BuildSize + Len(args[2]) <= MaxSize
          /\ heap' = addProperty(heap, id, args[1], args[2])
          /\ passed' = [passed EXCEPT ![id] = @ \o Pairs(args)]
    /\ UNCHANGED <<tree, treeSize, buf, next, pc, error>>
    /\ UNCHANGED ioVars
    /\ UNCHANGED <<raceVars, appVars>>

\* node.addChild(child) and node.addChild(child, child2).
AddChild ==
    /\ pc = "client"
    /\ \E id \in 1..Len(heap) :
       \E children \in UNION {[1..n -> 1..Len(heap)] : n \in 1..2} :
          /\ BuildSize + Len(children) <= MaxSize
          /\ heap' = addChild(heap, id, children)
    /\ UNCHANGED <<tree, treeSize, buf, next, pc, error, passed>>
    /\ UNCHANGED ioVars
    /\ UNCHANGED <<raceVars, appVars>>

\* The argument of the addProperty call that a client chains to addChild.
Chained == <<PROPERTY_BOOLEAN, <<Bool(TRUE)>>>>

\* node.addChild(child, ...).addProperty(type, value): the record that
\* addChild returns is used at once, as buildSceneInfoNode uses it for
\* nrMeta and nrProps.
AddChildChained ==
    /\ pc = "client"
    /\ \E id \in 1..Len(heap) :
       \E children \in UNION {[1..n -> 1..Len(heap)] : n \in 1..2} :
          /\ BuildSize + Len(children) + Len(Chained[2]) <= MaxSize
          /\ heap' = addProperty(addChild(heap, id, children),
                                 addChildReturn(children),
                                 Chained[1], Chained[2])
          /\ passed' = [passed EXCEPT ![addChildReturn(children)] =
                                          @ \o Pairs(Chained)]
    /\ UNCHANGED <<tree, treeSize, buf, next, pc, error>>
    /\ UNCHANGED ioVars
    /\ UNCHANGED <<raceVars, appVars>>

\* rootNodes.add(node).
AddRoot ==
    /\ pc = "client"
    /\ BuildSize + 1 <= MaxSize
    /\ \E id \in 1..Len(heap) : tree' = SetAdd(tree, id)
    /\ UNCHANGED <<heap, treeSize, buf, next, pc, error, passed>>
    /\ UNCHANGED ioVars
    /\ UNCHANGED <<raceVars, appVars>>

\* The size pass of a client's tree as it would be with extra bytes added
\* for the root set.
SerializeWith(extra) ==
    /\ pc = "client"
    /\ LET r == calculateNodeTreeSize(
                    heap, [isSet |-> TRUE, items |-> tree], {})
       IN /\ heap' = r.h
          /\ IF r.st = "ok"
             THEN /\ treeSize' = r.size + extra
                  /\ pc' = "alloc"
                  /\ error' = error
             ELSE /\ treeSize' = treeSize
                  /\ pc' = "failed"
                  /\ error' = r.st
    /\ UNCHANGED <<tree, buf, next, passed>>
    /\ UNCHANGED ioVars
    /\ UNCHANGED <<raceVars, appVars>>

\* Serialize as it would be if the size pass closed a root set that is not
\* empty with the 13 bytes that close a record's children.
SerializeWithTrailer == SerializeWith(IF tree # <<>> THEN 13 ELSE 0)

\* Serialize as it would be if the size pass closed every root set with
\* those 13 bytes.
SerializeTrailerAlways == SerializeWith(13)

\* The client hands its tree to the size pass.
Serialize == SizeAt("client")

Init ==
    /\ heap = <<>>
    /\ tree = <<>>
    /\ treeSize = Undefined
    /\ buf = NoBuffer
    /\ next = 0
    /\ pc = "client"
    /\ error = "none"
    /\ passed = <<>>
    /\ overwrite = TRUE
    /\ out = <<>>
    /\ exists = FALSE
    /\ calls = <<>>
    /\ file = <<>>
    /\ writers = <<>>
    /\ AppIdle

Next ==
    \/ New
    \/ AddProperty
    \/ AddChild
    \/ AddChildChained
    \/ AddRoot
    \/ Serialize
    \/ AllocBuffer
    \/ WriteRoot

Spec == Init /\ [][Next]_vars

\* ------------------------------------------------------------ tree builder
\* The builders return construction terms: Record(name, adds, kids) stands
\* for new FBXNodeRecord(name), an addProperty call per entry of adds and an
\* addChild call per entry of kids.  Build runs a term on the heap.

Record(name, adds, kids) == [name |-> name, adds |-> adds, kids |-> kids]

\* new FBXNodeRecord(name, type, ...values).
Leaf(name, type, values) == Record(name, <<<<type, values>>>>, <<>>)

\* The decimal digits of a natural number (Number.prototype.toString).
RECURSIVE Digits(_)
Digits(n) ==
    IF n < 10 THEN <<48 + n>> ELSE Digits(n \div 10) \o <<48 + (n % 10)>>

\* String.prototype.padStart(length, '0').
RECURSIVE PadStart(_, _)
PadStart(s, length) ==
    IF Len(s) >= length THEN s ELSE PadStart(<<48>> \o s, length)

\* util.format('%s/%s/%s %s:%s:%s:%s', ...).
FormatTime(a, b, c, d, e, f, g) ==
    a \o <<47>> \o b \o <<47>> \o c \o <<32>> \o d \o <<58>> \o e
      \o <<58>> \o f \o <<58>> \o g

\* Lines 67-73.
FBXProperty_Boolean(name, state) ==
    Record(<<80>> (* P *),
        << <<PROPERTY_STRING, <<Str(name), Str(<<98, 111, 111, 108>>) (* bool *), Str(<<>>), Str(<<>>)>>>>,
           <<PROPERTY_INT_32, <<Num(IF state THEN 1 ELSE 0)>>>> >>, <<>>)

\* Lines 75-81.
FBXProperty_Vector3D(name, x, y, z) ==
    Record(<<80>> (* P *),
        << <<PROPERTY_STRING, <<Str(name), Str(<<86, 101, 99, 116, 111, 114, 51, 68>>) (* Vector3D *), Str(<<86, 101, 99, 116, 111, 114>>) (* Vector *), Str(<<>>)>>>>,
           <<PROPERTY_DOUBLE, <<x, y, z>>>> >>, <<>>)

\* Lines 83-89.
FBXProperty_ColorRGB(name, r, g, b) ==
    Record(<<80>> (* P *),
        << <<PROPERTY_STRING, <<Str(name), Str(<<67, 111, 108, 111, 114, 82, 71, 66>>) (* ColorRGB *), Str(<<67, 111, 108, 111, 114>>) (* Color *), Str(<<>>)>>>>,
           <<PROPERTY_DOUBLE, <<r, g, b>>>> >>, <<>>)

\* Lines 91-96.
FBXProperty_URL(name, url) ==
    Record(<<80>> (* P *),
        << <<PROPERTY_STRING, <<Str(name), Str(<<75, 83, 116, 114, 105, 110, 103>>) (* KString *), Str(<<85, 114, 108>>) (* Url *), Str(url)>>>> >>,
        <<>>)

\* Lines 98-104.
FBXProperty_Enum(name, value) ==
    Record(<<80>> (* P *),
        << <<PROPERTY_STRING, <<Str(name), Str(<<101, 110, 117, 109>>) (* enum *), Str(<<>>), Str(<<>>)>>>>,
           <<PROPERTY_INT_32, <<value>>>> >>, <<>>)

\* Lines 106-112.
FBXProperty_Double(name, value) ==
    Record(<<80>> (* P *),
        << <<PROPERTY_STRING, <<Str(name), Str(<<100, 111, 117, 98, 108, 101>>) (* double *), Str(<<78, 117, 109, 98, 101, 114>>) (* Number *), Str(<<>>)>>>>,
           <<PROPERTY_DOUBLE, <<value>>>> >>, <<>>)

\* Lines 114-120.
FBXProperty_KTime(name, value) ==
    Record(<<80>> (* P *),
        << <<PROPERTY_STRING, <<Str(name), Str(<<75, 84, 105, 109, 101>>) (* KTime *), Str(<<84, 105, 109, 101>>) (* Time *), Str(<<>>)>>>>,
           <<PROPERTY_INT_64, <<value>>>> >>, <<>>)

\* Lines 122-127.
FBXProperty_KString(name, value) ==
    Record(<<80>> (* P *),
        << <<PROPERTY_STRING,
             <<Str(name), Str(<<75, 83, 116, 114, 105, 110, 103>>) (* KString *), Str(<<>>), Str(<<>>), Str(value)>>>> >>, <<>>)

\* Lines 129-135.
FBXProperty_Integer(name, value) ==
    Record(<<80>> (* P *),
        << <<PROPERTY_STRING, <<Str(name), Str(<<105, 110, 116>>) (* int *), Str(<<73, 110, 116, 101, 103, 101, 114>>) (* Integer *), Str(<<>>)>>>>,
           <<PROPERTY_INT_32, <<value>>>> >>, <<>>)

\* Lines 137-142.
FBXProperty_Object(name) ==
    Record(<<80>> (* P *),
        << <<PROPERTY_STRING, <<Str(name), Str(<<111, 98, 106, 101, 99, 116>>) (* object *), Str(<<>>), Str(<<>>)>>>> >>, <<>>)

\* Lines 144-150.
FBXProperty_LCLVector(name, x, y, z) ==
    Record(<<80>> (* P *),
        << <<PROPERTY_STRING, <<Str(name), Str(name), Str(<<>>), Str(<<65>>) (* A *)>>>>,
           <<PROPERTY_DOUBLE, <<x, y, z>>>> >>, <<>>)

\* Lines 205-219.  now is the value of new Date(): its local and its UTC
\* fields.
buildCreationTimeStampNode(now) ==
    Record(<<67, 114, 101, 97, 116, 105, 111, 110, 84, 105, 109, 101, 83, 116, 97, 109, 112>> (* CreationTimeStamp *), <<>>, <<
        Leaf(<<86, 101, 114, 115, 105, 111, 110>> (* Version *), PROPERTY_INT_32, <<Num(1000)>>),
        Leaf(<<89, 101, 97, 114>> (* Year *), PROPERTY_INT_32, <<Num(now.FullYear)>>),
        Leaf(<<77, 111, 110, 116, 104>> (* Month *), PROPERTY_INT_32, <<Num(now.Month + 1)>>),
        Leaf(<<68, 97, 121>> (* Day *), PROPERTY_INT_32, <<Num(now.Date)>>),
        Leaf(<<72, 111, 117, 114>> (* Hour *), PROPERTY_INT_32, <<Num(now.Hours)>>),
        Leaf(<<77, 105, 110, 117, 116, 101>> (* Minute *), PROPERTY_INT_32, <<Num(now.Minutes)>>),
        Leaf(<<83, 101, 99, 111, 110, 100>> (* Second *), PROPERTY_INT_32, <<Num(now.Seconds)>>),
        Leaf(<<77, 105, 108, 108, 105, 115, 101, 99, 111, 110, 100>> (* Millisecond *), PROPERTY_INT_32, <<Num(now.Milliseconds)>>) >>)

\* Lines 226-236.  properties is the sequence of the object's entries,
\* [key, type, value], in key order.
createCompound(name, properties) ==
    << Leaf(<<80>> (* P *), PROPERTY_STRING, <<Str(name), Str(<<67, 111, 109, 112, 111, 117, 110, 100>>) (* Compound *), Str(<<>>), Str(<<>>)>>) >>
    \o [i \in 1..Len(properties) |->
           Leaf(<<80>> (* P *), PROPERTY_STRING,
                <<Str(name \o <<124>> \o properties[i].key),
                  Str(properties[i].type), Str(<<>>), Str(<<>>),
                  Str(properties[i].value)>>)]

\* Lines 241-284.  base is '/' + path.basename(this.out), manifest is
\* nw.App.manifest.
buildSceneInfoNode(base, manifest, now) ==
    LET timeGMT ==
            FormatTime(PadStart(Digits(now.Date), 2),
                       PadStart(Digits(now.UTCMonth + 1), 2),
                       Digits(now.UTCFullYear),
                       Digits(now.UTCHours),
                       PadStart(Digits(now.UTCMinutes), 2),
                       PadStart(Digits(now.UTCSeconds), 2),
                       PadStart(Digits(now.UTCMilliseconds), 3))
        compoundLastSaved == <<
            [key |-> <<65, 112, 112, 108, 105, 99, 97, 116, 105, 111, 110, 86, 101, 110, 100, 111, 114>> (* ApplicationVendor *), type |-> <<75, 83, 116, 114, 105, 110, 103>> (* KString *),
             value |-> <<119, 111, 119, 46, 101, 120, 112, 111, 114, 116, 32>> (* wow.export  *)],
            [key |-> <<65, 112, 112, 108, 105, 99, 97, 116, 105, 111, 110, 78, 97, 109, 101>> (* ApplicationName *), type |-> <<75, 83, 116, 114, 105, 110, 103>> (* KString *),
             value |-> <<119, 111, 119, 46, 101, 120, 112, 111, 114, 116>> (* wow.export *)],
            [key |-> <<65, 112, 112, 108, 105, 99, 97, 116, 105, 111, 110, 86, 101, 114, 115, 105, 111, 110>> (* ApplicationVersion *), type |-> <<75, 83, 116, 114, 105, 110, 103>> (* KString *),
             value |-> manifest.version],
            [key |-> <<68, 97, 116, 101, 84, 105, 109, 101, 95, 71, 77, 84>> (* DateTime_GMT *), type |-> <<68, 97, 116, 101, 84, 105, 109, 101>> (* DateTime *),
             value |-> timeGMT] >>
        fileName == [key |-> <<70, 105, 108, 101, 78, 97, 109, 101>> (* FileName *), type |-> <<75, 83, 116, 114, 105, 110, 103>> (* KString *), value |-> base]
    IN Record(<<83, 99, 101, 110, 101, 73, 110, 102, 111>> (* SceneInfo *),
        << <<PROPERTY_STRING, <<Str(<<71, 108, 111, 98, 97, 108, 73, 110, 102, 111, 83, 99, 101, 110, 101, 73, 110, 102, 111>>) (* GlobalInfoSceneInfo *)>>>>,
           <<PROPERTY_STRING, <<Str(<<85, 115, 101, 114, 68, 97, 116, 97>>) (* UserData *)>>>> >>,
        << Leaf(<<84, 121, 112, 101>> (* Type *), PROPERTY_STRING, <<Str(<<85, 115, 101, 114, 68, 97, 116, 97>>) (* UserData *)>>),
           Leaf(<<86, 101, 114, 115, 105, 111, 110>> (* Version *), PROPERTY_INT_32, <<Num(100)>>),
           Record(<<77, 101, 116, 97, 68, 97, 116, 97>> (* MetaData *), <<>>, <<
               Leaf(<<86, 101, 114, 115, 105, 111, 110>> (* Version *), PROPERTY_INT_32, <<Num(100)>>),
               Leaf(<<84, 105, 116, 108, 101>> (* Title *), PROPERTY_STRING, <<Str(<<>>)>>),
               Leaf(<<83, 117, 98, 106, 101, 99, 116>> (* Subject *), PROPERTY_STRING, <<Str(<<>>)>>),
               Leaf(<<65, 117, 116, 104, 111, 114>> (* Author *), PROPERTY_STRING, <<Str(<<>>)>>),
               Leaf(<<75, 101, 121, 119, 111, 114, 100, 115>> (* Keywords *), PROPERTY_STRING, <<Str(<<>>)>>),
               Leaf(<<82, 101, 118, 105, 115, 105, 111, 110>> (* Revision *), PROPERTY_STRING, <<Str(<<>>)>>),
               Leaf(<<67, 111, 109, 109, 101, 110, 116>> (* Comment *), PROPERTY_STRING, <<Str(<<>>)>>) >>),
           Record(<<80, 114, 111, 112, 101, 114, 116, 105, 101, 115, 55, 48>> (* Properties70 *), <<>>,
               << FBXProperty_URL(<<68, 111, 99, 117, 109, 101, 110, 116, 85, 114, 108>> (* DocumentUrl *), base),
                  FBXProperty_URL(<<83, 114, 99, 68, 111, 99, 117, 109, 101, 110, 116, 85, 114, 108>> (* SrcDocumentUrl *), base) >>
               \o createCompound(<<79, 114, 105, 103, 105, 110, 97, 108>> (* Original *),
                                 <<fileName>> \o compoundLastSaved)
               \o createCompound(<<76, 97, 115, 116, 83, 97, 118, 101, 100>> (* LastSaved *), compoundLastSaved)) >>)

\* Lines 286-289: util.format('wow.export v%s %s', version, flavour).
getApplicationString(manifest) ==
    <<119, 111, 119, 46, 101, 120, 112, 111, 114, 116, 32, 118>> (* wow.export v *) \o manifest.version \o <<32>> \o manifest.flavour

\* Lines 294-304.
buildExtendedHeaderNode(base, manifest, now) ==
    Record(<<70, 66, 88, 72, 101, 97, 100, 101, 114, 69, 120, 116, 101, 110, 115, 105, 111, 110>> (* FBXHeaderExtension *), <<>>, <<
        Leaf(<<70, 66, 88, 72, 101, 97, 100, 101, 114, 86, 101, 114, 115, 105, 111, 110>> (* FBXHeaderVersion *), PROPERTY_INT_32, <<Num(1003)>>),
        Leaf(<<70, 66, 88, 86, 101, 114, 115, 105, 111, 110>> (* FBXVersion *), PROPERTY_INT_32, <<Num(FBX_VERSION)>>),
        Leaf(<<69, 110, 99, 114, 121, 112, 116, 105, 111, 110, 84, 121, 112, 101>> (* EncryptionType *), PROPERTY_INT_32, <<Num(0)>>),
        buildCreationTimeStampNode(now),
        Leaf(<<67, 114, 101, 97, 116, 111, 114>> (* Creator *), PROPERTY_STRING,
             <<Str(getApplicationString(manifest))>>),
        buildSceneInfoNode(base, manifest, now) >>)

\* Lines 310-317.  random is the sequence of the 16 values of
\* Math.floor(Math.random() * 255).
buildFileIDNode(random) ==
    Leaf(<<70, 105, 108, 101, 73, 100>> (* FileId *), PROPERTY_BINARY, <<Bytes(random)>>)

\* Lines 323-337.
buildCreationTimeNode(now) ==
    Leaf(<<67, 114, 101, 97, 116, 105, 111, 110, 84, 105, 109, 101>> (* CreationTime *), PROPERTY_STRING,
         <<Str(FormatTime(Digits(now.UTCFullYear),
                          PadStart(Digits(now.UTCMonth + 1), 2),
                          PadStart(Digits(now.Date), 2),
                          Digits(now.UTCHours),
                          PadStart(Digits(now.UTCMinutes), 2),
                          PadStart(Digits(now.UTCSeconds), 2),
                          PadStart(Digits(now.UTCMilliseconds), 3)))>>)

\* Lines 343-345.
buildCreatorNode(manifest) ==
    Leaf(<<67, 114, 101, 97, 116, 111, 114>> (* Creator *), PROPERTY_STRING, <<Str(getApplicationString(manifest))>>)

\* Lines 347-371.
buildGlobalSettingsNode ==
    Record(<<71, 108, 111, 98, 97, 108, 83, 101, 116, 116, 105, 110, 103, 115>> (* GlobalSettings *), <<>>, <<
        Leaf(<<86, 101, 114, 115, 105, 111, 110>> (* Version *), PROPERTY_INT_32, <<Num(1000)>>),
        Record(<<80, 114, 111, 112, 101, 114, 116, 105, 101, 115, 55, 48>> (* Properties70 *), <<>>, <<
            FBXProperty_Integer(<<85, 112, 65, 120, 105, 115>>, Num(1)),  \* UpAxis
            FBXProperty_Integer(<<85, 112, 65, 120, 105, 115, 83, 105, 103, 110>>, Num(1)),  \* UpAxisSign
            FBXProperty_Integer(<<70, 114, 111, 110, 116, 65, 120, 105, 115>>, Num(2)),  \* FrontAxis
            FBXProperty_Integer(<<70, 114, 111, 110, 116, 65, 120, 105, 115, 83, 105, 103, 110>>, Num(1)),  \* FrontAxisSign
            FBXProperty_Integer(<<67, 111, 111, 114, 100, 65, 120, 105, 115>>, Num(0)),  \* CoordAxis
            FBXProperty_Integer(<<67, 111, 111, 114, 100, 65, 120, 105, 115, 83, 105, 103, 110>>, Num(1)),  \* CoordAxisSign
            FBXProperty_Integer(<<79, 114, 105, 103, 105, 110, 97, 108, 85, 112, 65, 120, 105, 115>>, Num(-1)),  \* OriginalUpAxis
            FBXProperty_Integer(<<79, 114, 105, 103, 105, 110, 97, 108, 85, 112, 65, 120, 105, 115, 83, 105, 103, 110>>, Num(1)),  \* OriginalUpAxisSign
            FBXProperty_Double(<<85, 110, 105, 116, 83, 99, 97, 108, 101, 70, 97, 99, 116, 111, 114>>, Num(1)),  \* UnitScaleFactor
            FBXProperty_Double(<<79, 114, 105, 103, 105, 110, 97, 108, 85, 110, 105, 116, 83, 99, 97, 108, 101, 70, 97, 99, 116, 111, 114>>, Num(1)),  \* OriginalUnitScaleFactor
            FBXProperty_ColorRGB(<<65, 109, 98, 105, 101, 110, 116, 67, 111, 108, 111, 114>>, Num(0), Num(0), Num(0)),  \* AmbientColor
            FBXProperty_KString(<<68, 101, 102, 97, 117, 108, 116, 67, 97, 109, 101, 114, 97>>, <<80, 114, 111, 100, 117, 99, 101, 114, 32, 80, 101, 114, 115, 112, 101, 99, 116, 105, 118, 101>>),  \* DefaultCamera 'Producer Perspective'
            FBXProperty_Enum(<<84, 105, 109, 101, 77, 111, 100, 101>>, Num(11)),  \* TimeMode
            FBXProperty_KTime(<<84, 105, 109, 101, 83, 112, 97, 110, 83, 116, 97, 114, 116>>, Num(0)),  \* TimeSpanStart
            FBXProperty_KTime(<<84, 105, 109, 101, 83, 112, 97, 110, 83, 116, 111, 112>>, Times(46186158, 1000)),  \* TimeSpanStop
            FBXProperty_Double(<<67, 117, 115, 116, 111, 109, 70, 114, 97, 109, 101, 70, 114, 97, 109, 101>>, Num(24))  \* CustomFrameFrame
            >>) >>)

\* Lines 376-381.
buildDocumentsNode ==
    Record(<<68, 111, 99, 117, 109, 101, 110, 116, 115>> (* Documents *), <<>>,
           << Leaf(<<67, 111, 117, 110, 116>> (* Count *), PROPERTY_INT_32, <<Num(0)>>) >>)

\* Lines 387-499.  The three object type templates: GlobalSettings,
\* Geometry and Model.
buildDefinitionsNode ==
    Record(<<68, 101, 102, 105, 110, 105, 116, 105, 111, 110, 115>> (* Definitions *), <<>>, <<
        Leaf(<<86, 101, 114, 115, 105, 111, 110>> (* Version *), PROPERTY_INT_32, <<Num(100)>>),
        Leaf(<<67, 111, 117, 110, 116>> (* Count *), PROPERTY_INT_32, <<Num(3)>>),
        Record(<<79, 98, 106, 101, 99, 116, 84, 121, 112, 101>> (* ObjectType *), << <<PROPERTY_STRING, <<Str(<<71, 108, 111, 98, 97, 108, 83, 101, 116, 116, 105, 110, 103, 115>>) (* GlobalSettings *)>>>> >>,
            << Leaf(<<67, 111, 117, 110, 116>> (* Count *), PROPERTY_INT_32, <<Num(1)>>) >>),
        Record(<<79, 98, 106, 101, 99, 116, 84, 121, 112, 101>> (* ObjectType *), << <<PROPERTY_STRING, <<Str(<<71, 101, 111, 109, 101, 116, 114, 121>>) (* Geometry *)>>>> >>, <<
            Leaf(<<67, 111, 117, 110, 116>> (* Count *), PROPERTY_INT_32, <<Num(1)>>),
            Record(<<80, 114, 111, 112, 101, 114, 116, 121, 84, 101, 109, 112, 108, 97, 116, 101>> (* PropertyTemplate *),
                << <<PROPERTY_STRING, <<Str(<<70, 98, 120, 77, 101, 115, 104>>) (* FbxMesh *)>>>> >>, <<
                Record(<<80, 114, 111, 112, 101, 114, 116, 105, 101, 115, 55, 48>> (* Properties70 *), <<>>, <<
                    FBXProperty_ColorRGB(<<67, 111, 108, 111, 114>>, Frac(4, 5), Frac(4, 5), Frac(4, 5)),  \* Color
                    FBXProperty_Vector3D(<<66, 66, 111, 120, 77, 105, 110>>, Num(0), Num(0), Num(0)),  \* BBoxMin
                    FBXProperty_Vector3D(<<66, 66, 111, 120, 77, 97, 120>>, Num(0), Num(0), Num(0)),  \* BBoxMax
                    FBXProperty_Boolean(<<80, 114, 105, 109, 97, 114, 121, 32, 86, 105, 115, 105, 98, 105, 108, 105, 116, 121>>, TRUE),  \* Primary Visibility
                    FBXProperty_Boolean(<<67, 97, 115, 116, 115, 32, 83, 104, 97, 100, 111, 119, 115>>, TRUE),  \* Casts Shadows
                    FBXProperty_Boolean(<<82, 101, 99, 101, 105, 118, 101, 32, 83, 104, 97, 100, 111, 119, 115>>, TRUE)  \* Receive Shadows
                    >>) >>) >>),
        Record(<<79, 98, 106, 101, 99, 116, 84, 121, 112, 101>> (* ObjectType *), << <<PROPERTY_STRING, <<Str(<<77, 111, 100, 101, 108>>) (* Model *)>>>> >>, <<
            Leaf(<<67, 111, 117, 110, 116>> (* Count *), PROPERTY_INT_32, <<Num(1)>>),
            Record(<<80, 114, 111, 112, 101, 114, 116, 121, 84, 101, 109, 112, 108, 97, 116, 101>> (* PropertyTemplate *),
                << <<PROPERTY_STRING, <<Str(<<70, 98, 120, 78, 111, 100, 101>>) (* FbxNode *)>>>> >>, <<
                Record(<<80, 114, 111, 112, 101, 114, 116, 105, 101, 115, 55, 48>> (* Properties70 *), <<>>, <<
                    FBXProperty_Enum(<<81, 117, 97, 116, 101, 114, 110, 105, 111, 110, 73, 110, 116, 101, 114, 112, 111, 108, 97, 116, 101>>, Num(0)),  \* QuaternionInterpolate
                    FBXProperty_Vector3D(<<82, 111, 116, 97, 116, 105, 111, 110, 79, 102, 102, 115, 101, 116>>, Num(0), Num(0), Num(0)),  \* RotationOffset
                    FBXProperty_Vector3D(<<82, 111, 116, 97, 116, 105, 111, 110, 80, 105, 118, 111, 116>>, Num(0), Num(0), Num(0)),  \* RotationPivot
                    FBXProperty_Vector3D(<<83, 99, 97, 108, 105, 110, 103, 79, 102, 102, 115, 101, 116>>, Num(0), Num(0), Num(0)),  \* ScalingOffset
                    FBXProperty_Vector3D(<<83, 99, 97, 108, 105, 110, 103, 80, 105, 118, 111, 116>>, Num(0), Num(0), Num(0)),  \* ScalingPivot
                    FBXProperty_Boolean(<<84, 114, 97, 110, 115, 108, 97, 116, 105, 111, 110, 65, 99, 116, 105, 118, 101>>, FALSE),  \* TranslationActive
                    FBXProperty_Vector3D(<<84, 114, 97, 110, 115, 108, 97, 116, 105, 111, 110, 77, 105, 110>>, Num(0), Num(0), Num(0)),  \* TranslationMin
                    FBXProperty_Vector3D(<<84, 114, 97, 110, 115, 108, 97, 116, 105, 111, 110, 77, 97, 120>>, Num(0), Num(0), Num(0)),  \* TranslationMax
                    FBXProperty_Boolean(<<84, 114, 97, 110, 115, 108, 97, 116, 105, 111, 110, 77, 105, 110, 88>>, FALSE),  \* TranslationMinX
                    FBXProperty_Boolean(<<84, 114, 97, 110, 115, 108, 97, 116, 105, 111, 110, 77, 105, 110, 89>>, FALSE),  \* TranslationMinY
                    FBXProperty_Boolean(<<84, 114, 97, 110, 115, 108, 97, 116, 105, 111, 110, 77, 105, 110, 90>>, FALSE),  \* TranslationMinZ
                    FBXProperty_Boolean(<<84, 114, 97, 110, 115, 108, 97, 116, 105, 111, 110, 77, 97, 120, 88>>, FALSE),  \* TranslationMaxX
                    FBXProperty_Boolean(<<84, 114, 97, 110, 115, 108, 97, 116, 105, 111, 110, 77, 97, 120, 89>>, FALSE),  \* TranslationMaxY
                    FBXProperty_Boolean(<<84, 114, 97, 110, 115, 108, 97, 116, 105, 111, 110, 77, 97, 120, 90>>, FALSE),  \* TranslationMaxZ
                    FBXProperty_Boolean(<<82, 111, 116, 97, 116, 105, 111, 110, 79, 114, 100, 101, 114>>, FALSE),  \* RotationOrder
                    FBXProperty_Boolean(<<82, 111, 116, 97, 116, 105, 111, 110, 83, 112, 97, 99, 101, 70, 111, 114, 76, 105, 109, 105, 116, 79, 110, 108, 121>>, FALSE),  \* RotationSpaceForLimitOnly
                    FBXProperty_Boolean(<<82, 111, 116, 97, 116, 105, 111, 110, 83, 116, 105, 102, 102, 110, 101, 115, 115, 88>>, FALSE),  \* RotationStiffnessX
                    FBXProperty_Boolean(<<82, 111, 116, 97, 116, 105, 111, 110, 83, 116, 105, 102, 102, 110, 101, 115, 115, 89>>, FALSE),  \* RotationStiffnessY
                    FBXProperty_Boolean(<<82, 111, 116, 97, 116, 105, 111, 110, 83, 116, 105, 102, 102, 110, 101, 115, 115, 90>>, FALSE),  \* RotationStiffnessZ
                    FBXProperty_Boolean(<<65, 120, 105, 115, 76, 101, 110>>, FALSE),  \* AxisLen
                    FBXProperty_Vector3D(<<80, 114, 101, 82, 111, 116, 97, 116, 105, 111, 110>>, Num(0), Num(0), Num(0)),  \* PreRotation
                    FBXProperty_Vector3D(<<80, 111, 115, 116, 82, 111, 116, 97, 116, 105, 111, 110>>, Num(0), Num(0), Num(0)),  \* PostRotation
                    FBXProperty_Boolean(<<82, 111, 116, 97, 116, 105, 111, 110, 65, 99, 116, 105, 118, 101>>, FALSE),  \* RotationActive
                    FBXProperty_Vector3D(<<82, 111, 116, 97, 116, 105, 111, 110, 77, 105, 110>>, Num(0), Num(0), Num(0)),  \* RotationMin
                    FBXProperty_Vector3D(<<82, 111, 116, 97, 116, 105, 111, 110, 77, 97, 120>>, Num(0), Num(0), Num(0)),  \* RotationMax
                    FBXProperty_Boolean(<<82, 111, 116, 97, 116, 105, 111, 110, 77, 105, 110, 88>>, FALSE),  \* RotationMinX
                    FBXProperty_Boolean(<<82, 111, 116, 97, 116, 105, 111, 110, 77, 105, 110, 89>>, FALSE),  \* RotationMinY
                    FBXProperty_Boolean(<<82, 111, 116, 97, 116, 105, 111, 110, 77, 105, 110, 90>>, FALSE),  \* RotationMinZ
                    FBXProperty_Boolean(<<82, 111, 116, 97, 116, 105, 111, 110, 77, 97, 120, 88>>, FALSE),  \* RotationMaxX
                    FBXProperty_Boolean(<<82, 111, 116, 97, 116, 105, 111, 110, 77, 97, 120, 89>>, FALSE),  \* RotationMaxY
                    FBXProperty_Boolean(<<82, 111, 116, 97, 116, 105, 111, 110, 77, 97, 120, 90>>, FALSE),  \* RotationMaxZ
                    FBXProperty_Enum(<<73, 110, 104, 101, 114, 105, 116, 84, 121, 112, 101>>, Num(0)),  \* InheritType
                    FBXProperty_Boolean(<<83, 99, 97, 108, 105, 110, 103, 65, 99, 116, 105, 118, 101>>, FALSE),  \* ScalingActive
                    FBXProperty_Vector3D(<<83, 99, 97, 108, 105, 110, 103, 77, 105, 110>>, Num(0), Num(0), Num(0)),  \* ScalingMin
                    FBXProperty_Vector3D(<<83, 99, 97, 108, 105, 110, 103, 77, 97, 120>>, Num(1), Num(1), Num(1)),  \* ScalingMax
                    FBXProperty_Boolean(<<83, 99, 97, 108, 105, 110, 103, 77, 105, 110, 88>>, FALSE),  \* ScalingMinX
                    FBXProperty_Boolean(<<83, 99, 97, 108, 105, 110, 103, 77, 105, 110, 89>>, FALSE),  \* ScalingMinY
                    FBXProperty_Boolean(<<83, 99, 97, 108, 105, 110, 103, 77, 105, 110, 90>>, FALSE),  \* ScalingMinZ
                    FBXProperty_Boolean(<<83, 99, 97, 108, 105, 110, 103, 77, 97, 120, 88>>, FALSE),  \* ScalingMaxX
                    FBXProperty_Boolean(<<83, 99, 97, 108, 105, 110, 103, 77, 97, 120, 89>>, FALSE),  \* ScalingMaxY
                    FBXProperty_Boolean(<<83, 99, 97, 108, 105, 110, 103, 77, 97, 120, 90>>, FALSE),  \* ScalingMaxZ
                    FBXProperty_Vector3D(<<71, 101, 111, 109, 101, 116, 114, 105, 99, 84, 114, 97, 110, 115, 108, 97, 116, 105, 111, 110>>, Num(0), Num(0), Num(0)),  \* GeometricTranslation
                    FBXProperty_Vector3D(<<71, 101, 111, 109, 101, 116, 114, 105, 99, 82, 111, 116, 97, 116, 105, 111, 110>>, Num(0), Num(0), Num(0)),  \* GeometricRotation
                    FBXProperty_Vector3D(<<71, 101, 111, 109, 101, 116, 114, 105, 99, 83, 99, 97, 108, 105, 110, 103>>, Num(1), Num(1), Num(1)),  \* GeometricScaling
                    FBXProperty_Double(<<77, 105, 110, 68, 97, 109, 112, 82, 97, 110, 103, 101, 88>>, Num(0)),  \* MinDampRangeX
                    FBXProperty_Double(<<77, 105, 110, 68, 97, 109, 112, 82, 97, 110, 103, 101, 89>>, Num(0)),  \* MinDampRangeY
                    FBXProperty_Double(<<77, 105, 110, 68, 97, 109, 112, 82, 97, 110, 103, 101, 90>>, Num(0)),  \* MinDampRangeZ
                    FBXProperty_Double(<<77, 97, 120, 68, 97, 109, 112, 82, 97, 110, 103, 101, 88>>, Num(0)),  \* MaxDampRangeX
                    FBXProperty_Double(<<77, 97, 120, 68, 97, 109, 112, 82, 97, 110, 103, 101, 89>>, Num(0)),  \* MaxDampRangeY
                    FBXProperty_Double(<<77, 97, 120, 68, 97, 109, 112, 82, 97, 110, 103, 101, 90>>, Num(0)),  \* MaxDampRangeZ
                    FBXProperty_Double(<<77, 105, 110, 68, 97, 109, 112, 83, 116, 114, 101, 110, 103, 116, 104, 88>>, Num(0)),  \* MinDampStrengthX
                    FBXProperty_Double(<<77, 105, 110, 68, 97, 109, 112, 83, 116, 114, 101, 110, 103, 116, 104, 89>>, Num(0)),  \* MinDampStrengthY
                    FBXProperty_Double(<<77, 105, 110, 68, 97, 109, 112, 83, 116, 114, 101, 110, 103, 116, 104, 90>>, Num(0)),  \* MinDampStrengthZ
                    FBXProperty_Double(<<77, 97, 120, 68, 97, 109, 112, 83, 116, 114, 101, 110, 103, 116, 104, 88>>, Num(0)),  \* MaxDampStrengthX
                    FBXProperty_Double(<<77, 97, 120, 68, 97, 109, 112, 83, 116, 114, 101, 110, 103, 116, 104, 89>>, Num(0)),  \* MaxDampStrengthY
                    FBXProperty_Double(<<77, 97, 120, 68, 97, 109, 112, 83, 116, 114, 101, 110, 103, 116, 104, 90>>, Num(0)),  \* MaxDampStrengthZ
                    FBXProperty_Double(<<80, 114, 101, 102, 101, 114, 101, 100, 65, 110, 103, 108, 101, 88>>, Num(0)),  \* PreferedAngleX
                    FBXProperty_Double(<<80, 114, 101, 102, 101, 114, 101, 100, 65, 110, 103, 108, 101, 89>>, Num(0)),  \* PreferedAngleY
                    FBXProperty_Double(<<80, 114, 101, 102, 101, 114, 101, 100, 65, 110, 103, 108, 101, 90>>, Num(0)),  \* PreferedAngleZ
                    FBXProperty_Object(<<76, 111, 111, 107, 65, 116, 80, 114, 111, 112, 101, 114, 116, 121>>),  \* LookAtProperty
                    FBXProperty_Object(<<85, 112, 86, 101, 99, 116, 111, 114, 80, 114, 111, 112, 101, 114, 116, 121>>),  \* UpVectorProperty
                    FBXProperty_Boolean(<<83, 104, 111, 119>>, TRUE),  \* Show
                    FBXProperty_Boolean(<<78, 101, 103, 97, 116, 105, 118, 101, 80, 101, 114, 99, 101, 110, 116, 83, 104, 97, 112, 101, 83, 117, 112, 112, 111, 114, 116>>, TRUE),  \* NegativePercentShapeSupport
                    FBXProperty_Integer(<<68, 101, 102, 97, 117, 108, 116, 65, 116, 116, 114, 105, 98, 117, 116, 101, 73, 110, 100, 101, 120>>, Num(-1)),  \* DefaultAttributeIndex
                    FBXProperty_Boolean(<<70, 114, 101, 101, 122, 101>>, FALSE),  \* Freeze
                    FBXProperty_Boolean(<<76, 79, 68, 66, 111, 120>>, FALSE),  \* LODBox
                    FBXProperty_LCLVector(<<76, 99, 108, 32, 84, 114, 97, 110, 115, 108, 97, 116, 105, 111, 110>>, Num(0), Num(0), Num(0)),  \* Lcl Translation
                    FBXProperty_LCLVector(<<76, 99, 108, 32, 82, 111, 116, 97, 116, 105, 111, 110>>, Num(0), Num(0), Num(0)),  \* Lcl Rotation
                    FBXProperty_LCLVector(<<76, 99, 108, 32, 83, 99, 97, 108, 105, 110, 103>>, Num(0), Num(0), Num(0)),  \* Lcl Scaling
                    Record(<<80>> (* P *),
                        << <<PROPERTY_STRING,
                             <<Str(<<86, 105, 115, 105, 98, 105, 108, 105, 116, 121>>) (* Visibility *), Str(<<86, 105, 115, 105, 98, 105, 108, 105, 116, 121>>) (* Visibility *), Str(<<>>), Str(<<65>>) (* A *)>>>>,
                           <<PROPERTY_DOUBLE, <<Num(1)>>>> >>, <<>>),
                    Record(<<80>> (* P *),
                        << <<PROPERTY_STRING,
                             <<Str(<<86, 105, 115, 105, 98, 105, 108, 105, 116, 121, 32, 73, 110, 104, 101, 114, 105, 116, 97, 110, 99, 101>>) (* Visibility Inheritance *),
                               Str(<<86, 105, 115, 105, 98, 105, 108, 105, 116, 121, 32, 73, 110, 104, 101, 114, 105, 116, 97, 110, 99, 101>>) (* Visibility Inheritance *), Str(<<>>), Str(<<>>)>>>>,
                           <<PROPERTY_INT_32, <<Num(1)>>>> >>, <<>>)
                    >>) >>) >>) >>)

\* Lines 504-508.
buildTakesNode ==
    Record(<<84, 97, 107, 101, 115>> (* Takes *), <<>>, << Leaf(<<67, 117, 114, 114, 101, 110, 116>> (* Current *), PROPERTY_STRING, <<Str(<<>>)>>) >>)

\* Lines 513-517.
buildConnectionsNode == Record(<<67, 111, 110, 110, 101, 99, 116, 105, 111, 110, 115>> (* Connections *), <<>>, <<>>)

\* Lines 522-624.
buildObjectsNode == Record(<<79, 98, 106, 101, 99, 116, 115>> (* Objects *), <<>>, <<>>)

\* buildNodeTree as it would be with the Connections added before the
\* Objects.
buildNodeTreeConnectionsFirst(base, manifest, now, random) ==
    << buildExtendedHeaderNode(base, manifest, now),
       buildFileIDNode(random),
       buildCreationTimeNode(now),
       buildCreatorNode(manifest),
       buildGlobalSettingsNode,
       buildDocumentsNode,
       Record(<<82, 101, 102, 101, 114, 101, 110, 99, 101, 115>> (* References *), <<>>, <<>>),
       buildDefinitionsNode,
       buildConnectionsNode,
       buildObjectsNode,
       buildTakesNode >>

\* Lines 630-646: the root nodes, in the order they are added to the Set.
buildNodeTree(base, manifest, now, random) ==
    << buildExtendedHeaderNode(base, manifest, now),
       buildFileIDNode(random),
       buildCreationTimeNode(now),
       buildCreatorNode(manifest),
       buildGlobalSettingsNode,
       buildDocumentsNode,
       Record(<<82, 101, 102, 101, 114, 101, 110, 99, 101, 115>> (* References *), <<>>, <<>>),
       buildDefinitionsNode,
       buildObjectsNode,
       buildConnectionsNode,
       buildTakesNode >>

\* The calls a term stands for, run on heap h: the heap after them and the
\* identity of the term's record.
RECURSIVE Build(_, _)
RECURSIVE BuildChildren(_, _, _)
RECURSIVE AddProperties(_, _, _)
AddProperties(h, id, adds) ==
    IF adds = <<>> THEN h
    ELSE AddProperties(addProperty(h, id, Head(adds)[1], Head(adds)[2]),
                       id, Tail(adds))

BuildChildren(h, id, kids) ==
    IF kids = <<>> THEN h
    ELSE IF Len(kids) = 1
    THEN LET k == Build(h, kids[1]) IN addChild(k.h, id, <<k.id>>)
    ELSE \* the first half of the calls, then the rest
         LET half == Len(kids) \div 2
             h1 == BuildChildren(h, id, SubSeq(kids, 1, half))
         IN IF Len(h1) > 0
            THEN BuildChildren(h1, id, SubSeq(kids, half + 1, Len(kids)))
            ELSE h1

Build(h, term) ==
    LET h1 == FBXNodeRecord(h, term.name, <<>>)
        id == Len(h1)
    IN [h |-> BuildChildren(AddProperties(h1, id, term.adds), id, term.kids),
        id |-> id]

\* A sequence of root terms run on heap h, and rootNodes.add of each: the
\* heap and the Set.
RECURSIVE BuildRoots(_, _, _)
BuildRoots(h, set, terms) ==
    IF terms = <<>> THEN [h |-> h, tree |-> set]
    ELSE IF Len(terms) = 1
    THEN LET r == Build(h, terms[1])
         IN [h |-> r.h, tree |-> SetAdd(set, r.id)]
    ELSE \* the first half of the calls, then the rest
         LET half == Len(terms) \div 2
             r == BuildRoots(h, set, SubSeq(terms, 1, half))
         IN IF Len(r.h) > 0
            THEN BuildRoots(r.h, r.tree, SubSeq(terms, half + 1, Len(terms)))
            ELSE r

\* ------------------------------------------------------------ FBXWriter.write
\* One call of write(overwrite) on a writer constructed with the path out.
\* generics.fileExists, generics.createDirectory and buf.writeToFile are
\* asynchronous file system operations: each resolves or rejects.

\* Base names of this.out: 'a.fbx' and the same with U+00E9 for the 'a'.
Outs == {<<97, 46, 102, 98, 120>>, <<233, 46, 102, 98, 120>>}

\* nw.App.manifest: '0.1.9' 'win-x64' and '0.1.10' 'linux-x64'.
Manifests ==
    { [version |-> <<48, 46, 49, 46, 57>>,
       flavour |-> <<119, 105, 110, 45, 120, 54, 52>>],
      [version |-> <<48, 46, 49, 46, 49, 48>>,
       flavour |-> <<108, 105, 110, 117, 120, 45, 120, 54, 52>>] }

\* new Date(): 2021-03-04 05:06:07.008 in a UTC time zone,
\* 2020-12-31 19:59:59.999 local time five hours behind UTC, and
\* 2021-11-12 13:14:15.016 in a UTC time zone.
Dates ==
    { [FullYear |-> 2021, Month |-> 2, Date |-> 4, Hours |-> 5,
       Minutes |-> 6, Seconds |-> 7, Milliseconds |-> 8,
       UTCFullYear |-> 2021, UTCMonth |-> 2, UTCHours |-> 5,
       UTCMinutes |-> 6, UTCSeconds |-> 7, UTCMilliseconds |-> 8],
      [FullYear |-> 2020, Month |-> 11, Date |-> 31, Hours |-> 19,
       Minutes |-> 59, Seconds |-> 59, Milliseconds |-> 999,
       UTCFullYear |-> 2021, UTCMonth |-> 0, UTCHours |-> 0,
       UTCMinutes |-> 59, UTCSeconds |-> 59, UTCMilliseconds |-> 999],
      [FullYear |-> 2021, Month |-> 10, Date |-> 12, Hours |-> 13,
       Minutes |-> 14, Seconds |-> 15, Milliseconds |-> 16,
       UTCFullYear |-> 2021, UTCMonth |-> 10, UTCHours |-> 13,
       UTCMinutes |-> 14, UTCSeconds |-> 15, UTCMilliseconds |-> 16] }

\* The 16 values of Math.floor(Math.random() * 255): each in 0..254.
Randoms ==
    { [i \in 1..16 |-> 0], [i \in 1..16 |-> (i * 47) % 255],
      [i \in 1..16 |-> 254] }

\* The file at this.out before the call, where one exists.
Previous == <<79, 76, 68>>

\* The asynchronous operations invoked so far.
Called(op) == {i \in 1..Len(calls) : calls[i] = op}

\* Per record of a sequence of terms, in the order Build constructs them,
\* the (type, value) pairs its callers pass.
RECURSIVE PassedOf(_)
PassedOf(terms) ==
    IF terms = <<>> THEN <<>>
    ELSE IF Len(terms) = 1
    THEN LET term == terms[1]
         IN <<Flatten([i \in 1..Len(term.adds) |-> Pairs(term.adds[i])])>>
            \o PassedOf(term.kids)
    ELSE LET half == Len(terms) \div 2
         IN PassedOf(SubSeq(terms, 1, half))
            \o PassedOf(SubSeq(terms, half + 1, Len(terms)))

treeVars == <<heap, tree, treeSize, buf, next, passed>>

\* CheckExists as it would be if the existence check did not depend on
\* overwrite.
CheckExistsWhateverOverwrite ==
    /\ pc = "write"
    /\ calls' = Append(calls, "fileExists")
    /\ \/ /\ pc' = IF exists THEN "done" ELSE "createDirectory"
          /\ error' = error
       \/ /\ pc' = "failed"
          /\ error' = "fileExists"
    /\ UNCHANGED treeVars
    /\ UNCHANGED <<raceVars, appVars>>
    /\ UNCHANGED <<overwrite, out, exists, file>>

\* Lines 756-757: if (!overwrite && await generics.fileExists(this.out))
\* return.
CheckExists ==
    /\ pc = "write"
    /\ IF overwrite
       THEN /\ calls' = calls
            /\ pc' = "createDirectory"
            /\ error' = error
       ELSE /\ calls' = Append(calls, "fileExists")
            /\ \/ /\ pc' = IF exists THEN "done" ELSE "createDirectory"
                  /\ error' = error
               \/ /\ pc' = "failed"
                  /\ error' = "fileExists"
    /\ UNCHANGED treeVars
    /\ UNCHANGED <<raceVars, appVars>>
    /\ UNCHANGED <<overwrite, out, exists, file>>

\* Line 759: await generics.createDirectory(path.dirname(this.out)).
CreateDirectory ==
    /\ pc = "createDirectory"
    /\ calls' = Append(calls, "createDirectory")
    /\ \/ /\ pc' = "build"
          /\ error' = error
       \/ /\ pc' = "failed"
          /\ error' = "createDirectory"
    /\ UNCHANGED treeVars
    /\ UNCHANGED <<raceVars, appVars>>
    /\ UNCHANGED <<overwrite, out, exists, file>>

\* Line 761: const tree = this.buildNodeTree().
BuildNodeTree ==
    /\ pc = "build"
    /\ \E manifest \in Manifests, now \in Dates, random \in Randoms :
          LET terms == buildNodeTree(<<47>> \o out, manifest, now, random)
              r == BuildRoots(heap, <<>>, terms)
          IN /\ heap' = r.h
             /\ tree' = r.tree
             /\ passed' = passed \o PassedOf(terms)
    /\ pc' = "size"
    /\ UNCHANGED <<treeSize, buf, next, error>>
    /\ UNCHANGED ioVars
    /\ UNCHANGED <<raceVars, appVars>>

\* Line 762.
Size == SizeAt("size")

\* Flush as it would be if a rejected writeToFile were tried again.
FlushWithRetry ==
    /\ pc = "roots"
    /\ next = Len(tree)
    /\ Len(calls) < 4
    /\ calls' = Append(calls, "writeToFile")
    /\ \/ /\ file' = buf.data \o [i \in 1..(buf.cap - Offset(buf)) |-> 0]
          /\ exists' = TRUE
          /\ pc' = "done"
       \/ /\ pc' = pc
          /\ UNCHANGED <<file, exists>>
    /\ UNCHANGED treeVars
    /\ UNCHANGED <<raceVars, appVars>>
    /\ UNCHANGED <<overwrite, out, error>>

\* Line 779: await buf.writeToFile(this.out), the whole buffer.
Flush ==
    /\ pc = "roots"
    /\ next = Len(tree)
    /\ calls' = Append(calls, "writeToFile")
    /\ \/ /\ file' = buf.data \o [i \in 1..(buf.cap - Offset(buf)) |-> 0]
          /\ exists' = TRUE
          /\ pc' = "done"
          /\ error' = error
       \/ /\ pc' = "failed"
          /\ error' = "writeToFile"
          /\ UNCHANGED <<file, exists>>
    /\ UNCHANGED treeVars
    /\ UNCHANGED <<raceVars, appVars>>
    /\ UNCHANGED <<overwrite, out>>

InitWrite ==
    /\ heap = <<>>
    /\ tree = <<>>
    /\ treeSize = Undefined
    /\ buf = NoBuffer
    /\ next = 0
    /\ pc = "write"
    /\ error = "none"
    /\ passed = <<>>
    /\ overwrite \in BOOLEAN
    /\ out \in Outs
    /\ exists \in BOOLEAN
    /\ calls = <<>>
    /\ file = IF exists THEN Previous ELSE <<>>
    /\ writers = <<>>
    /\ AppIdle

NextWrite ==
    \/ CheckExists
    \/ CreateDirectory
    \/ BuildNodeTree
    \/ Size
    \/ AllocBuffer
    \/ WriteRoot
    \/ Flush

WriteSpec == InitWrite /\ [][NextWrite]_vars

\* One run of lines 761-777 from an empty heap: buildNodeTree, the size
\* pass, the preamble and the loop over the roots.  The result is the heap,
\* the root set and the buffer.
Run(base, manifest, now, random) ==
    LET r == BuildRoots(<<>>, <<>>, buildNodeTree(base, manifest, now, random))
    IN IF Len(r.h) = 0 THEN [h |-> r.h, tree |-> r.tree, b |-> NoBuffer]
       ELSE LET s == calculateNodeTreeSize(
                         r.h, [isSet |-> TRUE, items |-> r.tree], {})
            IN IF s.st # "ok" THEN [h |-> s.h, tree |-> r.tree, b |-> NoBuffer]
               ELSE LET b0 == Preamble(s.size)
                    IN IF Len(b0.data) = 0
                       THEN [h |-> s.h, tree |-> r.tree, b |-> b0]
                       ELSE [h |-> s.h, tree |-> r.tree,
                             b |-> WriteChildren(s.h, r.tree, b0)]

\* ------------------------------------------------------------ two calls
\* Two calls of write() for the same path, in one process: a call runs
\* until it awaits (lines 756, 759 and 779), and then the other may run.
\* writers[i] is the position of call i, the bytes of the buffer it has
\* produced and whether its writeToFile has resolved.

Callers == 1..2

\* Lines 756-757 in call i.
ExistsOf(i) ==
    /\ writers[i].pc = "write"
    /\ IF overwrite
       THEN writers' = [writers EXCEPT ![i].pc = "createDirectory"]
       ELSE \/ writers' = [writers EXCEPT ![i].pc =
                               IF exists THEN "done" ELSE "createDirectory"]
            \/ writers' = [writers EXCEPT ![i].pc = "failed"]
    /\ UNCHANGED <<heap, tree, treeSize, buf, next, pc, error, passed>>
    /\ UNCHANGED ioVars
    /\ UNCHANGED appVars

\* Line 759 in call i.
DirectoryOf(i) ==
    /\ writers[i].pc = "createDirectory"
    /\ \/ writers' = [writers EXCEPT ![i].pc = "build"]
       \/ writers' = [writers EXCEPT ![i].pc = "failed"]
    /\ UNCHANGED <<heap, tree, treeSize, buf, next, pc, error, passed>>
    /\ UNCHANGED ioVars
    /\ UNCHANGED appVars

\* Lines 761-777 in call i, which run without interruption: the tree, its
\* size, the buffer and the loop over the roots.  Both calls run in the
\* process of the first manifest and draw the first random bytes; their
\* times may differ.
BufferOf(i) ==
    /\ writers[i].pc = "build"
    /\ \E now \in Dates :
          LET manifest == CHOOSE m \in Manifests : Len(m.version) = 5
              random == [k \in 1..16 |-> 0]
              b == Run(<<47>> \o out, manifest, now, random).b
          IN writers' = [writers EXCEPT
                            ![i].pc = "writeToFile",
                            ![i].data = b.data \o [k \in 1..(b.cap - Offset(b))
                                                      |-> 0]]
    /\ UNCHANGED <<heap, tree, treeSize, buf, next, pc, error, passed>>
    /\ UNCHANGED ioVars
    /\ UNCHANGED appVars

\* Line 779 in call i.
FlushOf(i) ==
    /\ writers[i].pc = "writeToFile"
    /\ \/ /\ file' = writers[i].data
          /\ exists' = TRUE
          /\ writers' = [writers EXCEPT ![i].pc = "done", ![i].flushed = TRUE]
       \/ /\ writers' = [writers EXCEPT ![i].pc = "failed"]
          /\ UNCHANGED <<file, exists>>
    /\ UNCHANGED <<heap, tree, treeSize, buf, next, pc, error, passed>>
    /\ UNCHANGED <<overwrite, out, calls>>
    /\ UNCHANGED appVars

InitRace ==
    /\ heap = <<>>
    /\ tree = <<>>
    /\ treeSize = Undefined
    /\ buf = NoBuffer
    /\ next = 0
    /\ pc = "done"
    /\ error = "none"
    /\ passed = <<>>
    /\ overwrite = FALSE
    /\ out \in Outs
    /\ exists \in BOOLEAN
    /\ calls = <<>>
    /\ file = IF exists THEN Previous ELSE <<>>
    /\ writers = [i \in Callers |->
                     [pc |-> "write", data |-> <<>>, flushed |-> FALSE]]
    /\ AppIdle

NextRace ==
    \E i \in Callers :
        \/ ExistsOf(i)
        \/ DirectoryOf(i)
        \/ BufferOf(i)
        \/ FlushOf(i)

RaceSpec == InitRace /\ [][NextRace]_vars

\* ------------------------------------------------------------ any graph
\* The size and write passes on the graphs of records that the constructor
\* and addChild can build, whether or not a record is its own descendant.

\* The bound of a graph: its records, and the children of all of them.
WalkSize == 3

\* The sequences of at most n elements of S without repetition.
NoRepeat(S, n) ==
    UNION {{s \in [1..k -> S] : \A i, j \in 1..k : i # j => s[i] # s[j]} :
              k \in 0..n}

\* How many children the records of h have, all together.
Edges(h) == Sum([i \in 1..Len(h) |-> Len(h[i].children)])

\* new FBXNodeRecord('X'), new FBXNodeRecord('XX'), ... and the addChild
\* calls (of one child, or of two) that give each record its children.
Graphs ==
    LET kids == NoRepeat(1..WalkSize, 2)
        bare == [i \in 1..WalkSize |->
                    [name |-> [k \in 1..i |-> 88], properties |-> <<>>,
                     children |-> <<>>, size |-> Undefined,
                     propertySize |-> Undefined]]
    IN {h \in {[i \in 1..WalkSize |-> addChild(bare, i, g[i])[i]] :
                  g \in [1..WalkSize -> kids]} : Edges(h) <= WalkSize}

\* node.addChild(child) on a tree that the size pass has sized, with a
\* child that carries a size.
AddChildSized ==
    /\ pc = "alloc"
    /\ Edges(heap) < WalkSize
    /\ \E id \in 1..Len(heap), child \in 1..Len(heap) :
          /\ heap[child].size # Undefined
          /\ child \notin Range(heap[id].children)
          /\ heap' = addChild(heap, id, <<child>>)
    /\ UNCHANGED <<tree, treeSize, buf, next, pc, error, passed>>
    /\ UNCHANGED ioVars
    /\ UNCHANGED <<raceVars, appVars>>

InitWalk ==
    /\ heap \in Graphs
    /\ tree \in NoRepeat(1..WalkSize, 2) \ {<<>>}
    /\ treeSize = Undefined
    /\ buf = NoBuffer
    /\ next = 0
    /\ pc = "client"
    /\ error = "none"
    /\ passed = [i \in 1..WalkSize |-> <<>>]
    /\ overwrite = TRUE
    /\ out = <<>>
    /\ exists = FALSE
    /\ calls = <<>>
    /\ file = <<>>
    /\ writers = <<>>
    /\ AppIdle

NextWalk ==
    \/ Serialize
    \/ AddChildSized
    \/ AllocBuffer
    \/ WriteRoot

WalkSpec == InitWalk /\ [][NextWalk]_vars

\* ------------------------------------------------------------ drag and drop
\* app.js, lines 411-480: the handlers of the window's dragenter, drop and
\* dragleave events.  A handler runs from its first line to its last
\* without interruption.

\* The bound of a drag: how many dragenter events may be waiting for their
\* dragleave, and how far below 0 dropStack may fall.
MaxDrag == 2

\* e.dataTransfer.files, as far as the handlers look at it: how many files
\* there are, whether core.getDropHandler knows the first of them, and how
\* many names end with an extension of that handler.
FileLists ==
    {[length |-> 0, handler |-> FALSE, matching |-> 0],
     [length |-> 1, handler |-> FALSE, matching |-> 0]}
    \cup {[length |-> 2, handler |-> TRUE, matching |-> n] : n \in 0..2}

\* handler.prompt(count).
Prompt(count) == [kind |-> "prompt", count |-> count]

\* 'That file cannot be converted.'
CannotConvert == Str(<<84, 104, 97, 116, 32, 102, 105, 108, 101, 32, 99, 97, 110, 110, 111, 116, 32, 98, 101, 32, 99, 111, 110, 118, 101, 114, 116, 101, 100, 46>>)

\* Lines 413-447: window.ondragenter.
DragEnter(files) ==
    /\ dragged < MaxDrag
    /\ dragged' = dragged + 1
    /\ IF isBusy
       THEN UNCHANGED <<dropStack, fileDropPrompt>>
       ELSE /\ dropStack' = dropStack + 1
            /\ IF fileDropPrompt # Null \/ files.length = 0
               THEN fileDropPrompt' = fileDropPrompt
               ELSE IF files.handler
               THEN fileDropPrompt' = IF files.matching > 0
                                      THEN Prompt(files.matching)
                                      ELSE fileDropPrompt
               ELSE fileDropPrompt' = CannotConvert
    /\ UNCHANGED <<isBusy, processed>>
    /\ UNCHANGED <<fbxVars, raceVars, cacheVars, screenVars, crashVars>>

\* Lines 449-470: window.ondrop, while something is dragged over the
\* window.
Drop(files) ==
    /\ dragged > 0
    /\ fileDropPrompt' = Null
    /\ processed' = IF files.length > 0 /\ files.handler /\ files.matching > 0
                    THEN <<files.matching>>
                    ELSE processed
    /\ UNCHANGED <<dropStack, isBusy, dragged>>
    /\ UNCHANGED <<fbxVars, raceVars, cacheVars, screenVars, crashVars>>

\* Lines 472-480: window.ondragleave, for an element that was entered
\* (and while dropStack is within the bound).
DragLeave ==
    /\ dragged > 0
    /\ dropStack > -MaxDrag
    /\ dragged' = dragged - 1
    /\ dropStack' = dropStack - 1
    /\ fileDropPrompt' = IF dropStack' = 0 THEN Null ELSE fileDropPrompt
    /\ UNCHANGED <<isBusy, processed>>
    /\ UNCHANGED <<fbxVars, raceVars, cacheVars, screenVars, crashVars>>

\* core.view.isBusy changes between two events.
SetBusy ==
    /\ isBusy' = ~isBusy
    /\ UNCHANGED <<dropStack, fileDropPrompt, dragged, processed>>
    /\ UNCHANGED <<fbxVars, raceVars, cacheVars, screenVars, crashVars>>

\* The writer at rest: no call of write() is in progress.
FbxIdle ==
    /\ heap = <<>>
    /\ tree = <<>>
    /\ treeSize = Undefined
    /\ buf = NoBuffer
    /\ next = 0
    /\ pc = "done"
    /\ error = "none"
    /\ passed = <<>>
    /\ overwrite = TRUE
    /\ out = <<>>
    /\ exists = FALSE
    /\ calls = <<>>
    /\ file = <<>>
    /\ writers = <<>>

\* Line 412, with the handlers of lines 413-480 installed.
InitDrag == FbxIdle /\ AppIdle

NextDrag ==
    \/ \E files \in FileLists : DragEnter(files)
    \/ \E files \in FileLists : Drop(files)
    \/ DragLeave
    \/ SetBusy

DragSpec == InitDrag /\ [][NextDrag]_vars

\* ------------------------------------------------------------ cache size
\* app.js, lines 485-505: the watcher of core.view.cacheSize, which writes
\* the value to the file constants.CACHE.SIZE once it has been left alone
\* for constants.CACHE.SIZE_UPDATE_DELAY.  Time is counted in ticks; a
\* timer runs when its delay has passed, or one tick later.

\* The bounds: the ticks in SIZE_UPDATE_DELAY, and the changes of
\* cacheSize.
Delay == 2

MaxChanges == 3

\* The values of cacheSize.
CacheSizes == {0, 7, 12}

\* The changes of cacheSize so far.
Changes == SelectSeq(journal, LAMBDA e : e.op = "change")

\* clearTimeout(id).
clearTimeout(armed, id) == {t \in armed : t.id # id}

\* The watcher as it would be without clearTimeout(updateTimer).
WatchKeepingTimer(nv) ==
    LET id == Len(Changes) + 1
    IN /\ timers' = timers \cup {[id |-> id, due |-> clock + Delay, nv |-> nv]}
       /\ updateTimer' = id

\* Lines 494-504: the watcher, called with the new value.  setTimeout
\* returns an id that no timer had before.
Watch(nv) ==
    LET id == Len(Changes) + 1
    IN /\ timers' = clearTimeout(timers, updateTimer)
                        \cup {[id |-> id, due |-> clock + Delay, nv |-> nv]}
       /\ updateTimer' = id

\* core.view.cacheSize is assigned another value, which calls the watcher.
Change ==
    /\ Len(Changes) < MaxChanges
    /\ \E nv \in CacheSizes \ {cacheSize} :
          /\ cacheSize' = nv
          /\ Watch(nv)
          /\ journal' = Append(journal,
                               [op |-> "change", at |-> clock, value |-> Digits(nv)])
    /\ clock' = clock
    /\ UNCHANGED <<fbxVars, raceVars, dragVars, screenVars, crashVars>>

\* Lines 501-503: the callback of a timer whose delay has passed:
\* fsp.writeFile(constants.CACHE.SIZE, nv.toString(), 'utf8').
WriteSize ==
    /\ \E t \in timers :
          /\ t.due <= clock
          /\ timers' = timers \ {t}
          /\ journal' = Append(journal,
                               [op |-> "write", at |-> clock,
                                value |-> Digits(t.nv)])
    /\ UNCHANGED <<cacheSize, updateTimer, clock>>
    /\ UNCHANGED <<fbxVars, raceVars, dragVars, screenVars, crashVars>>

\* Time passes while a timer is armed; no timer is more than a tick late.
Tick ==
    /\ timers # {}
    /\ \A t \in timers : clock <= t.due
    /\ clock' = clock + 1
    /\ UNCHANGED <<cacheSize, updateTimer, timers, journal>>
    /\ UNCHANGED <<fbxVars, raceVars, dragVars, screenVars, crashVars>>

\* Lines 488-494: cacheSize holds the number read from the file, or 0,
\* updateTimer is -1 and the watcher is installed.
InitCache ==
    /\ FbxIdle /\ DragIdle /\ ScreenIdle /\ CrashIdle
    /\ cacheSize \in CacheSizes
    /\ updateTimer = -1
    /\ timers = {}
    /\ clock = 0
    /\ journal = <<>>

NextCache ==
    \/ Change
    \/ WriteSize
    \/ Tick

CacheSpec == InitCache /\ [][NextCache]_vars

\* ------------------------------------------------------------ screens
\* app.js, lines 213-245: the stack of screens of the view, whose entry 0
\* is the active screen (lines 324-326).

\* The bound of the stack.
MaxStack == 3

\* Screen IDs.
Screens == {"source-select", "loading", "changelog", "config"}

\* showPreviousScreen as it would be if it removed the last screen too.
showPreviousScreenOfAny(stack) ==
    IF Len(stack) > 0 THEN Tail(stack) ELSE stack

\* Lines 242-245: showPreviousScreen, on the stack.
showPreviousScreen(stack) ==
    IF Len(stack) > 1 THEN Tail(stack) ELSE stack

\* Lines 220-227: setScreen, on the stack.  unshift puts screenID before
\* entry 0; this.$set(stack, 0, screenID) replaces entry 0, and makes it
\* the only entry of an empty stack.
setScreen(stack, screenID, preserve) ==
    IF preserve THEN <<screenID>> \o stack
    ELSE IF stack = <<>> THEN <<screenID>>
    ELSE [stack EXCEPT ![1] = screenID]

\* A call of setScreen(screenID, preserve) or of setScreen(screenID).
SetScreen ==
    /\ \E screenID \in Screens, preserve \in BOOLEAN :
          /\ preserve => Len(screenStack) < MaxStack
          /\ screenStack' = setScreen(screenStack, screenID, preserve)
    /\ loadPct' = -1
    /\ UNCHANGED testing
    /\ UNCHANGED <<fbxVars, raceVars, dragVars, cacheVars, crashVars>>

\* A call of showPreviousScreen().
ShowPreviousScreen ==
    /\ screenStack' = showPreviousScreen(screenStack)
    /\ UNCHANGED <<loadPct, testing>>
    /\ UNCHANGED <<fbxVars, raceVars, dragVars, cacheVars, crashVars>>

\* Lines 165-173: runIntegrationTests, to its await.
RunIntegrationTests ==
    /\ ~testing
    /\ Len(screenStack) < MaxStack
    /\ screenStack' = setScreen(screenStack, "loading", TRUE)
    /\ loadPct' = 0
    /\ testing' = TRUE
    /\ UNCHANGED <<fbxVars, raceVars, dragVars, cacheVars, crashVars>>

\* Lines 175-179: runIntegrationTests, after the runner has finished.
TestsDone ==
    /\ testing
    /\ screenStack' = showPreviousScreen(screenStack)
    /\ loadPct' = -1
    /\ testing' = FALSE
    /\ UNCHANGED <<fbxVars, raceVars, dragVars, cacheVars, crashVars>>

\* Line 549: core.view.setScreen('source-select'), on the stack of a new
\* view, with no screen or with one.
InitScreen ==
    /\ FbxIdle /\ DragIdle /\ CacheIdle /\ CrashIdle
    /\ \E stack \in {<<>>} \cup {<<screenID>> : screenID \in Screens} :
          screenStack = setScreen(stack, "source-select", FALSE)
    /\ loadPct = -1
    /\ testing = FALSE

NextScreen ==
    \/ SetScreen
    \/ ShowPreviousScreen
    \/ RunIntegrationTests
    \/ TestsDone

ScreenSpec == InitScreen /\ [][NextScreen]_vars

\* ------------------------------------------------------------ crash
\* app.js, lines 13-70 and 134: crash() and the handlers that call it.
\* script is how far the top level has run: "handlers" after line 70,
\* "core" after line 78 (const core is initialised), "log" after line 79
\* (the log module has set getErrorDump), "vue" after line 134 (the error
\* handler of Vue is set), and "aborted" when a require of lines 73-78 has
\* thrown, which leaves core uninitialised for good.

\* The bound: the calls of crash().
MaxCalls == 3

\* e.message.
Messages == {"boom", "not found"}

\* Whether core can be read at line 56.
CoreInitialised == script \in {"core", "log", "vue"}

\* Line 52: whether getErrorDump is a function.  The log module sets it,
\* at line 79 at the latest, and sooner when a module of lines 75-78
\* requires the log module.
HasErrorDump == IF script \in {"log", "vue"} THEN {TRUE} ELSE BOOLEAN

\* crash() as it would be without the check of lines 23-24.
crashAgain(errorCode, errorText) ==
    /\ isCrashed' = TRUE
    /\ markup' = [page |-> "crash", replaced |-> markup.replaced + 1,
                  code |-> errorCode, message |-> errorText,
                  log |-> "pending"]
    /\ IF CoreInitialised
       THEN /\ emitted' = emitted + 1
            /\ running' = Append(running, errorCode)
       ELSE UNCHANGED <<emitted, running>>

\* Lines 21-58: crash(errorCode, errorText), to the point where it returns,
\* throws, or has called the listeners of 'crash' (in which case the call
\* is added to running).  Reading core before line 78 has run throws a
\* ReferenceError at line 56.
crash(errorCode, errorText) ==
    IF isCrashed THEN UNCHANGED <<isCrashed, markup, emitted, running>>
    ELSE /\ isCrashed' = TRUE
         /\ \E dump \in HasErrorDump :
                markup' = [page |-> "crash", replaced |-> markup.replaced + 1,
                           code |-> errorCode, message |-> errorText,
                           log |-> IF dump THEN "pending" ELSE "none"]
         /\ IF CoreInitialised
            THEN /\ emitted' = emitted + 1
                 /\ running' = Append(running, errorCode)
            ELSE UNCHANGED <<emitted, running>>

\* A call of crash() by one of the handlers.
Crash(errorCode) ==
    /\ Len(crashes) < MaxCalls
    /\ crashes' = Append(crashes, errorCode)
    /\ \E errorText \in Messages : crash(errorCode, errorText)

\* Lines 73-134: the top level runs on, when no call of crash() is running.
Load ==
    /\ running = <<>>
    /\ script \in {"handlers", "core", "log"}
    /\ script' = CASE script = "handlers" -> "core"
                    [] script = "core" -> "log"
                    [] script = "log" -> "vue"
    /\ UNCHANGED <<isCrashed, markup, emitted, running, crashes>>
    /\ UNCHANGED <<fbxVars, raceVars, dragVars, cacheVars, screenVars>>

\* Lines 73-78 and 70: a require throws, the top level ends, and the
\* handler of 'uncaughtException' calls crash().
RequireThrows ==
    /\ script = "handlers"
    /\ script' = "aborted"
    /\ Crash("ERR_UNHANDLED_EXCEPTION")
    /\ UNCHANGED <<fbxVars, raceVars, dragVars, cacheVars, screenVars>>

\* Line 69: a rejection that nothing handles, between two tasks.
UnhandledRejection ==
    /\ script # "handlers"
    /\ running = <<>>
    /\ Crash("ERR_UNHANDLED_REJECTION")
    /\ UNCHANGED script
    /\ UNCHANGED <<fbxVars, raceVars, dragVars, cacheVars, screenVars>>

\* Line 70: an exception that nothing catches, in a task or thrown by a
\* listener of 'crash', which ends the call of crash() that emitted it.
UncaughtException ==
    /\ script # "handlers"
    /\ Len(crashes) < MaxCalls
    /\ crashes' = Append(crashes, "ERR_UNHANDLED_EXCEPTION")
    /\ IF running = <<>>
       THEN \E errorText \in Messages :
                crash("ERR_UNHANDLED_EXCEPTION", errorText)
       ELSE \* the call that emitted ends, and this one returns at line 24
            /\ running' = <<>>
            /\ UNCHANGED <<isCrashed, markup, emitted>>
    /\ UNCHANGED script
    /\ UNCHANGED <<fbxVars, raceVars, dragVars, cacheVars, screenVars>>

\* Line 134: Vue catches an error, in a task or while a listener of
\* 'crash' runs.
VueError ==
    /\ script = "vue"
    /\ Crash("ERR_VUE")
    /\ UNCHANGED script
    /\ UNCHANGED <<fbxVars, raceVars, dragVars, cacheVars, screenVars>>

\* Line 57: the listeners of 'crash' have run, and crash() returns.
Emitted ==
    /\ running # <<>>
    /\ running' = SubSeq(running, 1, Len(running) - 1)
    /\ UNCHANGED <<isCrashed, markup, emitted, script, crashes>>
    /\ UNCHANGED <<fbxVars, raceVars, dragVars, cacheVars, screenVars>>

\* Line 53: getErrorDump() resolves, and the log is shown.
ShowLog ==
    /\ running = <<>>
    /\ isCrashed
    /\ markup.log = "pending"
    /\ markup' = [markup EXCEPT !.log = "shown"]
    /\ UNCHANGED <<isCrashed, emitted, script, running, crashes>>
    /\ UNCHANGED <<fbxVars, raceVars, dragVars, cacheVars, screenVars>>

\* Lines 20-70: isCrashed is false, and the handlers are registered.
InitCrash ==
    /\ FbxIdle /\ DragIdle /\ CacheIdle /\ ScreenIdle
    /\ isCrashed = FALSE
    /\ markup = [page |-> "app", replaced |-> 0]
    /\ emitted = 0
    /\ script = "handlers"
    /\ running = <<>>
    /\ crashes = <<>>

NextCrash ==
    \/ Load
    \/ RequireThrows
    \/ UnhandledRejection
    \/ UncaughtException
    \/ VueError
    \/ Emitted
    \/ ShowLog

CrashSpec == InitCrash /\ [][NextCrash]_vars

\* ------------------------------------------------------------ properties

\* The node records the writer has completed.
Visits == Range(buf.visits)

\* The unsigned 32-bit little-endian field at offset at.
U32At(data, at) ==
    data[at + 1] + 256 * data[at + 2] + 65536 * data[at + 3]
    + 16777216 * data[at + 4]

\* The records reachable from the records of S through children.
RECURSIVE Reach(_)
Reach(S) ==
    LET T == S \cup UNION {Range(heap[i].children) : i \in S}
    IN IF T = S THEN S ELSE Reach(T)

\* C1: the bytes writeNode emits for a node record (cursor offset after it
\* minus cursor offset before it) are exactly its stored size.
C1_EmittedBytesEqualSize ==
    \A v \in Visits : v.end - v.start = heap[v.node].size

\* C2: the endOffset field of every written record is the offset of its
\* header plus its stored size, and that is the position of the first byte
\* after the record's subtree and padding.
C2_EndOffsetIsEndOfSubtree ==
    \A v \in Visits :
        /\ U32At(buf.data, v.start) = v.start + heap[v.node].size
        /\ U32At(buf.data, v.start) = v.end

\* C3: the header cost of the size pass is the 13 fixed bytes plus the
\* encoded length of the name: the header bytes writeNode emits, with the
\* name length that writeNode writes in the nameLen byte.
C3_HeaderCostIsEncodedNameLength ==
    \A v \in Visits :
        /\ HeaderSize(heap[v.node]) = v.header - v.start
        /\ HeaderSize(heap[v.node]) = 4 + 4 + 4 + 1 + buf.data[v.start + 13]

\* The payload length of a property on the wire.
PayloadLength(property) ==
    IF property.type = PROPERTY_STRING THEN 4 + ByteLength(property.value.s)
    ELSE IF property.type = PROPERTY_BINARY THEN 4 + Len(property.value.b)
    ELSE property.type.size

\* C4: the propListLen field of every written record is its stored
\* propertySize, which is the sum of 1 + payload length over its direct
\* properties and the number of bytes writeNode emits for them.
C4_PropListLenIsPropertyBytes ==
    \A v \in Visits :
        LET node == heap[v.node] IN
        /\ U32At(buf.data, v.start + 8) = node.propertySize
        /\ node.propertySize =
               Sum([i \in 1..Len(node.properties) |->
                       1 + PayloadLength(node.properties[i])])
        /\ node.propertySize = v.props - v.header

\* C4's case: a written record with a multi-byte String property and a
\* child.
C4_Witness ==
    \E v \in Visits :
        /\ heap[v.node].children # <<>>
        /\ \E i \in 1..Len(heap[v.node].properties) :
              LET property == heap[v.node].properties[i] IN
              /\ property.type = PROPERTY_STRING
              /\ ByteLength(property.value.s) > StringLength(property.value.s)

\* C5: a record without children has no padding in its size and none on
\* the wire; a record with children has exactly 13 bytes of padding in its
\* size and 13 zero bytes after its last child.
C5_PaddingIffChildren ==
    /\ \A id \in 1..Len(heap) :
          LET node == heap[id] IN
          node.size # Undefined =>
              node.size - HeaderSize(node) - node.propertySize
                  - Sum([i \in 1..Len(node.children) |->
                            heap[node.children[i]].size])
              = IF node.children # <<>> THEN 13 ELSE 0
    /\ \A v \in Visits :
          SubSeq(buf.data, v.kids + 1, v.end)
          = IF heap[v.node].children # <<>> THEN [i \in 1..13 |-> 0]
            ELSE <<>>

\* C5's case: a written record with a child and no property, and a
\* written record with a property and no child.
C5_Witness ==
    /\ \E v \in Visits :
          heap[v.node].children # <<>> /\ heap[v.node].properties = <<>>
    /\ \E v \in Visits :
          heap[v.node].children = <<>> /\ heap[v.node].properties # <<>>

\* C6: within one write() call the whole tree is sized before the first
\* byte, preamble included, is written to the buffer; writeToFile is invoked
\* at most once, as the last operation of the call, after the preamble and
\* every root node have been written; and a call that failed before the
\* flush has invoked no flush.
C6_SizedThenWrittenThenFlushedOnce ==
    /\ buf.allocated =>
          /\ treeSize # Undefined
          /\ \A i \in Reach(Range(tree)) :
                heap[i].size # Undefined /\ heap[i].propertySize # Undefined
    /\ Cardinality(Called("writeToFile")) <= 1
    /\ Called("writeToFile") # {} =>
          /\ calls[Len(calls)] = "writeToFile"
          /\ SubSeq(buf.data, 1, 27) = Preamble(treeSize).data
          /\ next = Len(tree)
          /\ \A i \in 1..Len(tree) : \E v \in Visits : v.node = tree[i]
    /\ pc = "failed" /\ error # "writeToFile" => Called("writeToFile") = {}

\* A call that has flushed the buffer of its eleven root nodes.
C6_Witness ==
    /\ pc = "done"
    /\ Called("writeToFile") # {}
    /\ Len(tree) = 11
    /\ next = 11

\* C7: write(false) on a destination that exists when it is checked
\* completes as a no-op: no directory is created, no tree is built or
\* sized, no buffer is allocated, nothing is flushed and the file is left
\* as it was.  With overwrite the existence check is not performed, the
\* call goes on whether or not the destination exists, and when it
\* completes the file holds the whole buffer.
C7_ExistingDestinationIsLeftAlone ==
    /\ ~overwrite /\ exists /\ file = Previous
            /\ pc # "write" /\ error # "fileExists" =>
          /\ pc = "done"
          /\ error = "none"
          /\ calls = <<"fileExists">>
          /\ heap = <<>> /\ tree = <<>> /\ treeSize = Undefined
          /\ ~buf.allocated
    /\ overwrite => Called("fileExists") = {}
    /\ overwrite /\ pc \notin {"write", "createDirectory"} =>
          Called("createDirectory") # {}
    /\ overwrite /\ pc = "done" =>
          /\ Called("writeToFile") # {}
          /\ file = buf.data
          /\ Len(file) = 27 + treeSize

\* write(false) has returned from the existence check of a destination
\* that exists.
C7_Witness ==
    /\ ~overwrite
    /\ file = Previous
    /\ calls = <<"fileExists">>
    /\ pc = "done"

\* C8: the buffer of write() has exactly 27 + treeSize bytes; no write goes
\* past its end, and when the last root node has been written the cursor is
\* at its end.
C8_BufferIsExactlyFilled ==
    /\ buf.allocated => buf.cap = 27 + treeSize
    /\ ~buf.thrown
    /\ Offset(buf) <= buf.cap
    /\ buf.allocated /\ next = Len(tree) => Offset(buf) = buf.cap

\* The last of the eleven root nodes has been written.
C8_Witness ==
    /\ buf.allocated
    /\ Len(tree) = 11
    /\ next = 11
    /\ buf.visits[Len(buf.visits)].node = tree[11]

\* C9: until the size pass runs every record's size and propertySize are
\* undefined; once it has returned, exactly the records reachable from the
\* root set carry both, and so does every record writeNode visits.
C9_SizedBeforeWritten ==
    /\ pc = "client" =>
          \A id \in 1..Len(heap) :
              heap[id].size = Undefined /\ heap[id].propertySize = Undefined
    /\ treeSize # Undefined =>
          \A id \in 1..Len(heap) :
              /\ (heap[id].size # Undefined) = (id \in Reach(Range(tree)))
              /\ (heap[id].propertySize # Undefined)
                     = (id \in Reach(Range(tree)))
    /\ \A v \in Visits :
          heap[v.node].size # Undefined
          /\ heap[v.node].propertySize # Undefined

\* C9's case: the write pass has written a root and its child, and a
\* record outside the tree exists.
C9_Witness ==
    /\ pc = "roots"
    /\ next = Len(tree)
    /\ \E v \in Visits : v.node \notin Range(tree)
    /\ \E id \in 1..Len(heap) : id \notin Reach(Range(tree))

\* C10: the property count and the property bytes of every written record
\* are those of the values passed to the constructor and to addProperty
\* for it, in the order they were passed, none merged or dropped.
C10_PropertiesInInsertionOrder ==
    \A v \in Visits :
        /\ U32At(buf.data, v.start + 4) = Len(passed[v.node])
        /\ SubSeq(buf.data, v.header + 1, v.props)
           = Flatten([i \in 1..Len(passed[v.node]) |->
                         WriteProperty(passed[v.node][i], Alloc(64)).data])

\* C10's case: a written record that was passed the same type and value
\* twice.
C10_Witness ==
    \E v \in Visits :
        \E i, j \in 1..Len(passed[v.node]) :
            i < j /\ passed[v.node][i] = passed[v.node][j]

\* A step of node.addChild(...children) on record id, where the call
\* changes the heap.
AddChildCall(id, children) ==
    /\ pc = "client"
    /\ BuildSize + Len(children) <= MaxSize
    /\ heap' = addChild(heap, id, children)
    /\ heap' # heap
    /\ passed' = passed

\* A step of node.addChild(...children).addProperty(type, value).
AddChildChainedCall(id, children) ==
    /\ pc = "client"
    /\ BuildSize + Len(children) + Len(Chained[2]) <= MaxSize
    /\ heap' = addProperty(addChild(heap, id, children),
                           addChildReturn(children), Chained[1], Chained[2])

\* The calls of addChild a client can make.
ChildArguments == UNION {[1..n -> 1..Len(heap)] : n \in 1..2}

\* The position of x in the sequence s.
IndexOf(s, x) == CHOOSE i \in 1..Len(s) : s[i] = x

\* What addChild leaves alone: the node's name and properties and every
\* other record; and the chained call lands on the first child given.
AddChildFrame(id) ==
    /\ heap'[id].name = heap[id].name
    /\ heap'[id].properties = heap[id].properties
    /\ \A other \in 1..Len(heap) : other # id => heap'[other] = heap[other]

AddChildReturnsFirst ==
    \A id \in 1..Len(heap), children \in ChildArguments :
        AddChildChainedCall(id, children) =>
            LET c1 == children[1] IN
            /\ Len(heap'[c1].properties) = Len(heap[c1].properties) + 1
            /\ \A other \in 1..Len(heap) :
                  other # c1 => heap'[other].properties
                                    = heap[other].properties

\* C11 as claimed: addChild appends every given child to the end of the
\* children, in argument order, also one that is already a child or is
\* given twice; it returns the first child given and leaves the node's
\* name and properties alone.
C11_AddChildAppendsEveryChild ==
    [][/\ \A id \in 1..Len(heap), children \in ChildArguments :
             AddChildCall(id, children) =>
                 /\ heap'[id].children = heap[id].children \o children
                 /\ AddChildFrame(id)
       /\ AddChildReturnsFirst]_vars

\* C11 as amended: addChild appends, in argument order, each given child
\* that is not yet a child, once: the children it had keep their places,
\* the children after the call are those and the given ones, none twice,
\* and the new ones stand in the order of their first mention.  It returns
\* the first child given and leaves the node's name and properties alone.
C11_AddChildAppendsNewChildrenOnce ==
    [][/\ \A id \in 1..Len(heap), children \in ChildArguments :
             AddChildCall(id, children) =>
                 LET old == heap[id].children
                     new == heap'[id].children
                 IN /\ SubSeq(new, 1, Len(old)) = old
                    /\ Range(new) = Range(old) \cup Range(children)
                    /\ Cardinality(Range(new)) = Len(new)
                    /\ \A i, j \in (Len(old) + 1)..Len(new) :
                          i < j => IndexOf(children, new[i])
                                       < IndexOf(children, new[j])
                    /\ AddChildFrame(id)
       /\ AddChildReturnsFirst]_vars

\* C11's case: a record has two children, the later of which is the record
\* itself or comes before the earlier one in construction order, and a
\* property chained to addChild.
C11_Witness ==
    /\ pc = "client"
    /\ \E id \in 1..Len(heap) :
          /\ Len(heap[id].children) = 2
          /\ heap[id].children[2] <= heap[id].children[1]
    /\ \E id \in 1..Len(heap) :
          \E i \in 1..Len(heap[id].properties) :
              heap[id].properties[i] = Pairs(Chained)[1]

\* A step of node.addProperty(type, ...values) on record id.
AddPropertyCall(id, args) ==
    /\ pc = "client"
    /\ BuildSize + Len(args[2]) <= MaxSize
    /\ heap' = addProperty(heap, id, args[1], args[2])

\* A step of new FBXNodeRecord(name, type, ...values).
NewCall(name, args) ==
    /\ pc = "client"
    /\ BuildSize + 1 + Len(args[2]) <= MaxSize
    /\ heap' = FBXNodeRecord(heap, name, args)

\* The properties new are the properties old and then one property per
\* value of args, in order, each with the type of args.
Appended(old, new, args) ==
    /\ Len(new) = Len(old) + Len(args[2])
    /\ \A i \in 1..Len(old) : new[i] = old[i]
    /\ \A i \in 1..Len(args[2]) :
          /\ new[Len(old) + i].type = args[1]
          /\ new[Len(old) + i].value = args[2][i]

\* C12: addProperty(type, v1, ..., vn) appends exactly n properties to the
\* end of the record's properties, in argument order, each with the given
\* type and its value, and changes nothing else; without a value it changes
\* nothing; and a record constructed with a type and values has the
\* properties that addProperty with those arguments gives a new record.
C12_AddPropertyAppendsOnePerValue ==
    [][/\ \A id \in 1..Len(heap), args \in Arguments :
             AddPropertyCall(id, args) =>
                 /\ Appended(heap[id].properties, heap'[id].properties, args)
                 /\ heap'[id].name = heap[id].name
                 /\ heap'[id].children = heap[id].children
                 /\ heap'[id].size = heap[id].size
                 /\ heap'[id].propertySize = heap[id].propertySize
                 /\ \A other \in 1..Len(heap) :
                       other # id => heap'[other] = heap[other]
       /\ \A id \in 1..Len(heap), args \in Arguments :
             addProperty(heap, id, args[1], <<>>) = heap
       /\ \A name \in Names, args \in Arguments :
             NewCall(name, args) =>
                 LET id == Len(heap) + 1 IN
                 /\ Len(heap') = id
                 /\ Appended(<<>>, heap'[id].properties, args)
                 /\ heap'[id].name = name
                 /\ heap'[id].children = <<>>
                 /\ \A other \in 1..Len(heap) : heap'[other] = heap[other]]_vars

\* C12's case: a record constructed with a type and two values that was
\* then given a property of another type.
C12_Witness ==
    \E id \in 1..Len(heap) :
        LET properties == heap[id].properties IN
        /\ Len(properties) = 3
        /\ properties[1].type = properties[2].type
        /\ properties[1].value # properties[2].value
        /\ properties[3].type # properties[1].type

\* The bytes the claim gives a property in the size pass: for an array
\* type the type code and the element width times the number of elements
\* of the value.
ClaimedCost(property) ==
    IF property.type.isArray
    THEN 1 + property.type.size * Len(property.value.a)
    ELSE 1 + PayloadLength(property)

\* C13: once the size pass has run over a tree (one without a cycle), a
\* record of the tree with a property of an array type has been sized
\* without an exception, and 1 + element width * number of elements of the
\* value is what that property adds to the record's size and propertySize.
C13_ArrayPropertyIsSized ==
    \A id \in Reach(Range(tree)) :
        LET node == heap[id] IN
        /\ pc # "client"
        /\ error # "RangeError"
        /\ \E i \in 1..Len(node.properties) : node.properties[i].type.isArray
        => /\ error # "TypeError"
           /\ node.propertySize =
                  Sum([i \in 1..Len(node.properties) |->
                          ClaimedCost(node.properties[i])])
           /\ node.size =
                  HeaderSize(node) + node.propertySize
                  + Sum([i \in 1..Len(node.children) |->
                            heap[node.children[i]].size])
                  + PaddingSize(node)

\* Whether the runtime shape of a property's value is the one its type
\* expects.
Matches(property) ==
    property.value.kind =
        CASE property.type = PROPERTY_STRING -> "string"
          [] property.type = PROPERTY_BINARY -> "buffer"
          [] property.type = PROPERTY_BOOLEAN -> "boolean"
          [] property.type.isArray -> "array"
          [] OTHER -> "number"

\* C14: a property whose value does not match its type is refused by
\* addProperty and by the constructor: no record ever holds one, so none
\* is sized and none is written.
C14_MismatchedPropertyIsRefused ==
    /\ \A id \in 1..Len(heap) :
          \A i \in 1..Len(heap[id].properties) :
              Matches(heap[id].properties[i])
    /\ \A id \in 1..Len(heap) :
          Len(heap[id].properties)
              = Len(SelectSeq(passed[id], Matches))

\* The bytes this call of write() has stored at this.out.
Written == IF Called("writeToFile") # {} /\ pc = "done" THEN file ELSE <<>>

\* C15: the file that write() produces starts with the 21 bytes
\* 'Kaydara FBX Binary', two spaces and a NUL, then 0x1A, then 0x00, then
\* 7400 as a little-endian 32-bit integer (0xE8 0x1C 0x00 0x00); the first
\* root record starts at offset 27 and its endOffset field is 27 plus its
\* size.  The buffer holds the same from the moment it is allocated.
C15_FileStartsWithPreamble ==
    \A data \in {buf.data, Written} :
        data # <<>> =>
            /\ SubSeq(data, 1, 21) =
                   <<75, 97, 121, 100, 97, 114, 97, 32, 70, 66, 88, 32,
                     66, 105, 110, 97, 114, 121, 32, 32, 0>>
            /\ data[22] = 26
            /\ data[23] = 0
            /\ SubSeq(data, 24, 27) = <<232, 28, 0, 0>>
            /\ U32At(data, 23) = 7400
            /\ Len(data) > 27 =>
                  /\ \E v \in Visits : v.node = tree[1] /\ v.start = 27
                  /\ U32At(data, 27) = 27 + heap[tree[1]].size

\* C15's case: write(true) has stored the file of its eleven root
\* records.
C15_Witness ==
    /\ Len(Written) > 27
    /\ Written = buf.data
    /\ overwrite
    /\ Len(tree) = 11

\* C16: for a root set the size pass returns exactly the sum of the sizes
\* of the roots, with no 13 bytes after the last one, whatever their
\* number; the buffer is the preamble and that many bytes; and the write
\* pass emits nothing after a root: the cursor is where the record last
\* completed ends.
C16_NoTrailerAfterRoots ==
    /\ treeSize # Undefined =>
          treeSize = Sum([i \in 1..Len(tree) |-> heap[tree[i]].size])
    /\ buf.allocated =>
          buf.cap = 27 + Sum([i \in 1..Len(tree) |-> heap[tree[i]].size])
    /\ buf.allocated /\ ~buf.thrown =>
          /\ next = 0 => Offset(buf) = 27
          /\ next > 0 =>
                LET last == buf.visits[Len(buf.visits)] IN
                /\ last.node = tree[next]
                /\ Offset(buf) = last.end

\* C16's case: both roots of a set of two are written, one of them with a
\* child of its own.
C16_Witness ==
    /\ Len(tree) = 2
    /\ next = 2
    /\ ~buf.thrown
    /\ \E i \in 1..2 : heap[tree[i]].children # <<>>

\* C17: for an empty root set the size pass returns 0 and completes, and
\* the buffer of the write procedure has exactly 27 bytes, which are the
\* preamble; no record is written.
C17_EmptyTreeIsPreambleOnly ==
    tree = <<>> /\ pc # "client" =>
        /\ treeSize = 0
        /\ error = "none"
        /\ pc \in {"alloc", "roots"}
        /\ buf.allocated =>
              /\ buf.cap = 27
              /\ buf.data = <<75, 97, 121, 100, 97, 114, 97, 32, 70, 66, 88,
                              32, 66, 105, 110, 97, 114, 121, 32, 32, 0,
                              26, 0, 232, 28, 0, 0>>
              /\ buf.visits = <<>>
              /\ ~buf.thrown
              /\ ~ENABLED WriteRoot

\* C17's case: the write procedure has run to its end on an empty root
\* set, beside which the client has constructed records.
C17_Witness ==
    /\ tree = <<>>
    /\ pc = "roots"
    /\ buf.allocated
    /\ heap # <<>>

\* The names of the root records in the order the claim gives.
RootNames ==
    <<
       <<70, 66, 88, 72, 101, 97, 100, 101, 114, 69, 120, 116, 101, 110, 115, 105, 111, 110>> (* FBXHeaderExtension *),
       <<70, 105, 108, 101, 73, 100>> (* FileId *),
       <<67, 114, 101, 97, 116, 105, 111, 110, 84, 105, 109, 101>> (* CreationTime *),
       <<67, 114, 101, 97, 116, 111, 114>> (* Creator *),
       <<71, 108, 111, 98, 97, 108, 83, 101, 116, 116, 105, 110, 103, 115>> (* GlobalSettings *),
       <<68, 111, 99, 117, 109, 101, 110, 116, 115>> (* Documents *),
       <<82, 101, 102, 101, 114, 101, 110, 99, 101, 115>> (* References *),
       <<68, 101, 102, 105, 110, 105, 116, 105, 111, 110, 115>> (* Definitions *),
       <<79, 98, 106, 101, 99, 116, 115>> (* Objects *),
       <<67, 111, 110, 110, 101, 99, 116, 105, 111, 110, 115>> (* Connections *),
       <<84, 97, 107, 101, 115>> (* Takes *) >>

\* The completed calls of writeNode for root records, in order: no root
\* of buildNodeTree is a child of any record.
RootVisits == SelectSeq(buf.visits, LAMBDA v : v.node \in Range(tree))

\* C18: the tree that buildNodeTree returns has exactly eleven roots, all
\* different records, named FBXHeaderExtension, FileId, CreationTime,
\* Creator, GlobalSettings, Documents, References, Definitions, Objects,
\* Connections and Takes in this order; and the root records in the buffer
\* are those, in that order, one after the other from offset 27.
C18_ElevenRootsInOrder ==
    /\ tree # <<>> =>
          /\ Len(tree) = 11
          /\ Cardinality(Range(tree)) = 11
          /\ \A i \in 1..11 : heap[tree[i]].name = RootNames[i]
    /\ buf.allocated =>
          /\ Len(RootVisits) = next
          /\ \A i \in 1..next :
                LET v == RootVisits[i] IN
                /\ v.node = tree[i]
                /\ v.start = IF i = 1 THEN 27 ELSE RootVisits[i - 1].end
                /\ buf.data[v.start + 13] = Len(RootNames[i])
                /\ SubSeq(buf.data, v.start + 14, v.header) = RootNames[i]
    /\ pc \in {"size", "alloc", "roots"} => tree # <<>>
    /\ Called("writeToFile") # {} => next = 11

\* C18's case: the file of a call holds the eleven roots.
C18_Witness ==
    /\ pc = "done"
    /\ Len(RootVisits) = 11
    /\ file = buf.data
    /\ RootVisits[11].end = Len(file)

\* The structure of a record: all but the sizes.
Structure(node) ==
    [name |-> node.name, properties |-> node.properties,
     children |-> node.children]

\* C19: a step of the size pass and a step of the write pass leave the
\* root set, the number of records and every record's name, properties and
\* children as they are; the size pass changes nothing of a record outside
\* the tree, and where it changes a record it sets its size and its
\* propertySize; the write pass changes no record at all.
C19_PassesLeaveTheTreeAlone ==
    [][pc # "client" \/ pc' # "client" =>
          /\ tree' = tree
          /\ Len(heap') = Len(heap)
          /\ \A id \in 1..Len(heap) :
                /\ Structure(heap'[id]) = Structure(heap[id])
                /\ id \notin Reach(Range(tree)) => heap'[id] = heap[id]
                /\ heap'[id] # heap[id] =>
                      /\ pc = "client"
                      /\ heap'[id].size # Undefined
                      /\ heap'[id].propertySize # Undefined
          /\ pc # "client" => heap' = heap]_vars

\* C19's case: both passes have run over a root that has a property and a
\* child.
C19_Witness ==
    /\ pc = "roots"
    /\ next = Len(tree)
    /\ \E v \in Visits :
          /\ v.node \in Range(tree)
          /\ heap[v.node].properties # <<>>
          /\ heap[v.node].children # <<>>
          /\ heap[v.node].size # Undefined

\* The manifests whose application string is the one of the Creator root
\* of this call.
ManifestsOfCall ==
    {m \in Manifests :
        \E id \in Range(tree) :
            /\ heap[id].name = <<67, 114, 101, 97, 116, 111, 114>> (* Creator *)
            /\ heap[id].properties[1].value.s = getApplicationString(m)}

\* Whether the string s ends with the string t.
EndsWith(s, t) ==
    Len(s) >= Len(t) /\ SubSeq(s, Len(s) - Len(t) + 1, Len(s)) = t

\* The records of this call's tree whose last property holds the random
\* file id or a value derived from the current time: FileId, CreationTime,
\* the children of CreationTimeStamp but Version, and the P records of the
\* DateTime_GMT entries.
VaryingRecords ==
    {id \in Reach(Range(tree)) :
        \/ heap[id].name = <<70, 105, 108, 101, 73, 100>> (* FileId *)
        \/ heap[id].name = <<67, 114, 101, 97, 116, 105, 111, 110, 84, 105, 109, 101>> (* CreationTime *)
        \/ /\ heap[id].name # <<86, 101, 114, 115, 105, 111, 110>> (* Version *)
           /\ \E p \in Reach(Range(tree)) :
                 /\ heap[p].name = <<67, 114, 101, 97, 116, 105, 111, 110, 84, 105, 109, 101, 83, 116, 97, 109, 112>> (* CreationTimeStamp *)
                 /\ id \in Range(heap[p].children)
        \/ /\ heap[id].name = <<80>> (* P *)
           /\ EndsWith(heap[id].properties[1].value.s,
                       <<124, 68, 97, 116, 101, 84, 105, 109, 101, 95, 71, 77, 84>> (* |DateTime_GMT *))}

\* The positions in the buffer (from 1) of the payload bytes of those
\* properties: for a String and for the Binary the bytes after the length.
VaryingBytes ==
    UNION {LET last == heap[v.node].properties[Len(heap[v.node].properties)]
               length == IF last.type = PROPERTY_STRING
                         THEN ByteLength(last.value.s)
                         ELSE IF last.type = PROPERTY_BINARY
                         THEN Len(last.value.b)
                         ELSE last.type.size
           IN (v.props - length + 1)..v.props
           : v \in {w \in Visits : w.node \in VaryingRecords}}

\* C20: the buffer of this call and the buffer of any other run of build,
\* size and write with the same output path and the same application
\* version and flavour, whatever its time and its random values, have the
\* same length and the same bytes everywhere but in the payload of FileId
\* and of the values derived from the time; the endOffset, propCount and
\* propListLen of every record are the same in both.
C20_RunsDifferOnlyInFileIdAndTime ==
    buf.allocated /\ next = Len(tree) /\ pc # "failed" =>
        LET stable == (1..Len(buf.data)) \ VaryingBytes IN
        \A manifest \in ManifestsOfCall, now \in Dates, random \in Randoms :
            LET other == Run(<<47>> \o out, manifest, now, random).b IN
            /\ Len(other.data) = Len(buf.data)
            /\ \A i \in stable : other.data[i] = buf.data[i]
            /\ Len(other.visits) = Len(buf.visits)
            /\ \A k \in 1..Len(buf.visits) :
                  LET mine == buf.visits[k]
                      its == other.visits[k]
                  IN /\ its.node = mine.node
                     /\ its.start = mine.start
                     /\ \A field \in {0, 4, 8} :
                           U32At(other.data, its.start + field)
                               = U32At(buf.data, mine.start + field)

\* ------------------------------------------------------------ C21

\* The records below the records of S: their children, and so on.
Below(S) == Reach(UNION {Range(heap[i].children) : i \in S})

\* The records reachable from the records of S that are reachable from
\* themselves.
OnCycle(S) == {id \in Reach(S) : id \in Below({id})}

\* How many paths lead from the record from down to the record id,
\* where no record below from is reachable from itself.
RECURSIVE Walks(_, _)
Walks(from, id) ==
    (IF from = id THEN 1 ELSE 0)
    + Sum([k \in 1..Len(heap[from].children) |->
              Walks(heap[from].children[k], id)])

\* How many paths lead from the records of roots down to the record id.
Paths(roots, id) == Sum([k \in 1..Len(roots) |-> Walks(roots[k], id)])

\* How often id occurs in the sequence s.
Count(s, id) == Cardinality({k \in 1..Len(s) : s[k] = id})

\* The bytes of one record without properties: its header, and the 13
\* bytes after its children where it has any.
OwnBytes(id) ==
    13 + Len(heap[id].name) + (IF heap[id].children = <<>> THEN 0 ELSE 13)

\* A step that calls calculateNodeTreeSize on the root set.
SizeCall == pc = "client" /\ pc' # "client"

\* A step that calls writeNode on the next root.
WriteCall == pc = "roots" /\ buf' # buf

\* The root that WriteCall writes.
Root == tree[next + 1]

\* The records from the root down carry the sizes that the size pass
\* stores for them as they are, and the buffer has room for the root.
SizedWithRoom ==
    LET r == calculateNodeTreeSize(heap, [isSet |-> FALSE, id |-> Root], {})
    IN /\ r.st = "ok"
       /\ r.h = heap
       /\ Offset(buf) + heap[Root].size <= buf.cap

\* The records writeNode completes in a WriteCall, in order.
Completed ==
    [k \in 1..(Len(buf'.visits) - Len(buf.visits)) |->
        buf'.visits[Len(buf.visits) + k].node]

\* What both halves of C21 say of a tree without cycle: the size pass
\* returns the bytes of every record once per path from the root set,
\* having visited it that often, and so does writeNode from a root.
OncePerPath ==
    /\ SizeCall /\ OnCycle(Range(tree)) = {} =>
          LET r == calculateNodeTreeSize(
                       heap, [isSet |-> TRUE, items |-> tree], {})
          IN /\ pc' = "alloc"
             /\ treeSize' = Sum([id \in 1..Len(heap) |->
                                   Paths(tree, id) * OwnBytes(id)])
             /\ \A id \in 1..Len(heap) :
                   Count(r.visits, id) = Paths(tree, id)
    /\ WriteCall /\ OnCycle({Root}) = {} /\ SizedWithRoom =>
          /\ ~buf'.thrown
          /\ next' = next + 1
          /\ Offset(buf') = Offset(buf) + heap[Root].size
          /\ \A id \in 1..Len(heap) :
                Count(Completed, id) = Walks(Root, id)

Flushed == {i \in Callers : writers[i].flushed}

\* C22: with overwrite disabled, of two calls of write() for the same
\* path at most one stores a buffer there, however the calls interleave at
\* their awaits: a call never writes where a file exists, be it the file
\* that was there before the calls or the one the other call has written.
C22_AtMostOneCallFlushes ==
    ~overwrite =>
        /\ Cardinality(Flushed) <= 1
        /\ file # <<>> /\ Flushed = {} => file = Previous
        /\ \A i \in Flushed : file = writers[i].data

\* ------------------------------------------------------------ C23

\* C23: dropStack is never negative, and whenever every dragenter has been
\* followed by its dragleave, dropStack is 0 and no prompt is shown.
C23_NothingDraggedNothingShown ==
    /\ dropStack >= 0
    /\ dragged = 0 => dropStack = 0 /\ fileDropPrompt = Null

\* ------------------------------------------------------------ C24

\* The last change of cacheSize among the first k entries of the journal
\* (0 if there is none).
LastChange(k) ==
    LET before == {j \in 1..k : journal[j].op = "change"}
    IN IF before = {} THEN 0
       ELSE CHOOSE j \in before : \A i \in before : i <= j

\* C24: at most one write of the cache size is pending, and it is the one
\* of the last change.  Every write carries the value of the last change
\* before it, is issued no sooner than SIZE_UPDATE_DELAY after that change
\* and is the only write since: changes that follow each other by less
\* than SIZE_UPDATE_DELAY have no write between them, and one write after
\* the last of them.
C24_OneWriteAfterTheLastChange ==
    /\ Cardinality(timers) <= 1
    /\ \A t \in timers :
          /\ t.id = updateTimer
          /\ t.nv = cacheSize
          /\ LastChange(Len(journal)) = Len(journal)
          /\ t.due = journal[Len(journal)].at + Delay
    /\ \A k \in 1..Len(journal) :
          /\ journal[k].op = "write" =>
                /\ LastChange(k) = k - 1
                /\ k > 1
                /\ journal[k].value = journal[k - 1].value
                /\ journal[k].at >= journal[k - 1].at + Delay
          /\ k + 2 <= Len(journal) /\ journal[k].op = "change"
             /\ journal[k + 1].op = "write" =>
                journal[k + 2].at - journal[k].at >= Delay
          /\ journal[k].op = "change" /\ k = Len(journal) => timers # {}
    /\ Len(journal) > 0 /\ journal[Len(journal)].op = "write" =>
          /\ timers = {}
          /\ journal[Len(journal)].value = Digits(cacheSize)

\* C24's case: three changes less than SIZE_UPDATE_DELAY apart, and then
\* the one write, of the last value.
C24_Witness ==
    /\ Len(journal) = 4
    /\ \A k \in 1..3 : journal[k].op = "change"
    /\ journal[1].at < journal[2].at
    /\ journal[2].at < journal[3].at
    /\ journal[4].op = "write"
    /\ journal[4].value = Digits(cacheSize)
    /\ timers = {}

\* ------------------------------------------------------------ C25

\* The entries of the stack s after the first.
Rest(s) == [k \in 1..(Len(s) - 1) |-> s[k + 1]]

\* C25: the stack is never empty.  A step that changes it either puts one
\* entry before the others and keeps them, or replaces entry 0 alone, or
\* removes entry 0 of a stack of more than one entry; showPreviousScreen
\* on a stack of one entry changes nothing, and after setScreen(id, true)
\* it gives back the stack as it was.
C25_StackNeverEmpty ==
    /\ [](/\ Len(screenStack) >= 1
          /\ Len(screenStack) = 1 =>
                showPreviousScreen(screenStack) = screenStack
          /\ \A screenID \in Screens :
                LET pushed == setScreen(screenStack, screenID, TRUE)
                    set == setScreen(screenStack, screenID, FALSE)
                IN /\ Len(pushed) = Len(screenStack) + 1
                   /\ pushed[1] = screenID
                   /\ Rest(pushed) = screenStack
                   /\ Len(set) = Len(screenStack)
                   /\ set[1] = screenID
                   /\ Rest(set) = Rest(screenStack)
                   /\ showPreviousScreen(pushed) = screenStack)
    /\ [][screenStack' # screenStack =>
             \/ Rest(screenStack') = screenStack
             \/ /\ Len(screenStack') = Len(screenStack)
                /\ Rest(screenStack') = Rest(screenStack)
             \/ /\ Len(screenStack) > 1
                /\ screenStack' = Rest(screenStack)]_vars

\* C25's case: setScreen(id, true) has put 'changelog' before
\* 'source-select', and runIntegrationTests 'loading' before both.
C25_Witness ==
    /\ screenStack = <<"loading", "changelog", "source-select">>
    /\ testing
    /\ loadPct = 0

\* ---- C26
\* What the page shows of a crash, apart from the log that arrives later.
Shown(m) == IF m.page = "app" THEN <<"app">> ELSE <<m.page, m.code, m.message>>

\* A step in which the first call of crash() gets past line 24.
FirstCrash == ~isCrashed /\ isCrashed'

\* C26 as stated: isCrashed, once true, stays true; the first call of
\* crash() sets isCrashed, replaces the markup of the page and emits the
\* 'crash' event; every call after it changes nothing of the page and
\* emits nothing.
C26_FirstCallAlwaysEmits ==
    [][/\ isCrashed => /\ isCrashed'
                      /\ Shown(markup') = Shown(markup)
                      /\ markup'.replaced = markup.replaced
                      /\ emitted' = emitted
       /\ FirstCrash => /\ markup'.page = "crash"
                        /\ markup'.replaced = markup.replaced + 1
                        /\ emitted' = emitted + 1]_vars

\* C26 as the code has it: isCrashed, once true, stays true; the first call
\* of crash() sets isCrashed and replaces the markup of the page, and emits
\* the 'crash' event exactly when core is initialised; every call after it
\* changes nothing of the page and emits nothing; so the markup is replaced
\* at most once, the event is emitted at most once, and no second call of
\* crash() gets to the listeners.
C26_CrashTakesEffectOnce ==
    /\ [](/\ markup.replaced = (IF isCrashed THEN 1 ELSE 0)
          /\ (markup.page = "crash") = isCrashed
          /\ emitted <= markup.replaced
          /\ Len(running) <= emitted
          /\ (crashes = <<>>) = ~isCrashed)
    /\ [][/\ isCrashed => /\ isCrashed'
                         /\ Shown(markup') = Shown(markup)
                         /\ markup'.replaced = markup.replaced
                         /\ emitted' = emitted
          /\ FirstCrash => /\ markup'.page = "crash"
                           /\ markup'.replaced = markup.replaced + 1
                           /\ markup'.code = crashes'[1]
                           /\ emitted' = (IF CoreInitialised THEN 1 ELSE 0)]_vars

\* Three calls of crash(), the second and third made while the listeners
\* of the first are running: one replacement and one event.
C26_Witness ==
    /\ Len(crashes) = MaxCalls
    /\ crashes[1] = "ERR_UNHANDLED_REJECTION"
    /\ crashes[2] = "ERR_VUE"
    /\ running = <<"ERR_UNHANDLED_REJECTION">>
    /\ isCrashed
    /\ markup.replaced = 1
    /\ emitted = 1

====
